---- MODULE Spec2Model ----
(***************************************************************************)
(* Model of the symmetric facades of sylphbyte/encrypt: the chainable     *)
(* configuration calls, the block-mode engine with its IV handling, the    *)
(* padding and encoding strategies, and Encrypt / Decrypt.                 *)
(*                                                                         *)
(* Byte strings are sequences over 0..255.  A Go nil slice is Nil.         *)
(***************************************************************************)
EXTENDS Integers, Sequences, FiniteSets, TLC

VARIABLES fac, last, pool, bp, pk, ini, asym

vars == <<fac, last, pool, bp, pk, ini, asym>>

\* the pools, the buffer pool and the padding probe, which the facade calls leave alone
others == <<pool, bp, pk, ini, asym>>

(***************************************************************************)
(* Bounds of the model.                                                    *)
(***************************************************************************)
\* the longest plaintext spans MaxBlocks whole blocks plus one byte
MaxBlocks == 2
\* number of distinct values the random source can return for one read
NumRand == 2

(***************************************************************************)
(* Program constants.                                                      *)
(***************************************************************************)
AESBlockSize == 16
DESBlockSize == 8
SM4BlockSize == 16
GCMNonceSize == 12
GCMTagSize == 16

Nil == <<-1>>

Algorithms == {"AES", "DES", "3DES", "SM4"}
Modes == {"ECB", "CBC", "CFB", "OFB", "CTR", "GCM"}
IVModes == {"CBC", "CFB", "OFB", "CTR"}
Paddings == {"None", "PKCS7", "Zero"}
Encodings == {"Raw", "Base64", "Base64URL", "Hex"}

GoLen(s) == IF s = Nil THEN 0 ELSE Len(s)

BlockSizeOf(alg) ==
  CASE alg = "AES" -> AESBlockSize
    [] alg = "DES" -> DESBlockSize
    [] alg = "3DES" -> DESBlockSize
    [] alg = "SM4" -> SM4BlockSize

\* mutation: any whole number of 8-byte words is taken as a key
KeyLenMultipleOf8(alg, n) == n > 0 /\ n % 8 = 0

\* the key-length check at the head of NewX and NewConcurrentX
ValidKeyLen(alg, n) ==
  CASE alg = "AES" -> n \in {16, 24, 32}
    [] alg = "DES" -> n = 8
    [] alg = "3DES" -> n = 24
    [] alg = "SM4" -> n = 16

(***************************************************************************)
(* Byte arithmetic.                                                        *)
(***************************************************************************)
Bit(a, k) == (a \div k) % 2

NibbleXor == [a \in 0..15, b \in 0..15 |->
               ((Bit(a, 1) + Bit(b, 1)) % 2)
             + 2 * ((Bit(a, 2) + Bit(b, 2)) % 2)
             + 4 * ((Bit(a, 4) + Bit(b, 4)) % 2)
             + 8 * ((Bit(a, 8) + Bit(b, 8)) % 2)]

ByteXor(a, b) == 16 * NibbleXor[a \div 16, b \div 16] + NibbleXor[(a % 16), (b % 16)]

XorBytes(a, b) == [i \in 1..Len(a) |-> ByteXor(a[i], b[i])]

Slice(s, from, to) == SubSeq(s, from, to)

Repeat(b, n) == [i \in 1..n |-> b]

(***************************************************************************)
(* The block primitive (cipher.Block): a keyed permutation of the blocks. *)
(***************************************************************************)
BlockEncrypt(key, b) ==
  LET n == Len(b)
  IN [i \in 1..n |-> (b[(i % n) + 1] + key[((i - 1) % Len(key)) + 1] + i) % 256]

BlockDecrypt(key, c) ==
  LET n == Len(c)
      j(i) == IF i = 1 THEN n ELSE i - 1
  IN [i \in 1..n |-> (c[j(i)] - key[((j(i) - 1) % Len(key)) + 1] - j(i) + 768) % 256]

(***************************************************************************)
(* Padding strategies.  A result is [ok |-> BOOLEAN, val |-> bytes].       *)
(***************************************************************************)
Ok(v) == [ok |-> TRUE, val |-> v]
Err == [ok |-> FALSE, val |-> <<>>]

NoPaddingPad(data, blockSize) ==
  IF Len(data) % blockSize # 0 THEN Err ELSE Ok(data)

NoPaddingUnpad(data, blockSize) == Ok(data)

PKCS7Pad(data, blockSize) ==
  IF blockSize <= 0 THEN Err
  ELSE IF blockSize > 256 THEN Err
  ELSE LET padding == blockSize - (Len(data) % blockSize)
       IN Ok(data \o Repeat(padding % 256, padding))

\* mutation: only the last byte of the padding is looked at
PKCS7UnpadLastOnly(data, blockSize) ==
  IF blockSize <= 0 \/ blockSize > 256 \/ Len(data) = 0 \/ Len(data) % blockSize # 0 THEN Err
  ELSE IF data[Len(data)] > blockSize \/ data[Len(data)] = 0 THEN Err
  ELSE Ok(SubSeq(data, 1, Len(data) - data[Len(data)]))

PKCS7Unpad(data, blockSize) ==
  IF blockSize <= 0 THEN Err
  ELSE IF blockSize > 256 THEN Err
  ELSE IF Len(data) = 0 THEN Err
  ELSE IF Len(data) % blockSize # 0 THEN Err
  ELSE LET padding == data[Len(data)]
       IN IF padding > blockSize \/ padding = 0 THEN Err
          ELSE IF \E i \in (Len(data) - padding + 1)..Len(data) : data[i] # padding THEN Err
          ELSE Ok(Slice(data, 1, Len(data) - padding))

ZeroPad(data, blockSize) ==
  IF blockSize <= 0 THEN Err
  ELSE LET padding == blockSize - (Len(data) % blockSize)
       IN Ok(data \o Repeat(0, padding))

\* mutation: Unpad removes one trailing zero byte
ZeroUnpadOne(data, blockSize) ==
  IF blockSize <= 0 THEN Err
  ELSE IF Len(data) = 0 THEN Err
  ELSE IF Len(data) % blockSize # 0 THEN Err
  ELSE Ok(Slice(data, 1, IF data[Len(data)] = 0 THEN Len(data) - 1 ELSE Len(data)))

ZeroUnpad(data, blockSize) ==
  IF blockSize <= 0 THEN Err
  ELSE IF Len(data) = 0 THEN Err
  ELSE IF Len(data) % blockSize # 0 THEN Err
  ELSE LET nz == {i \in 1..Len(data) : data[i] # 0}
           index == IF nz = {} THEN 0 ELSE CHOOSE i \in nz : \A j \in nz : j <= i
       IN Ok(Slice(data, 1, index))

Pad(padding, data, blockSize) ==
  CASE padding = "None" -> NoPaddingPad(data, blockSize)
    [] padding = "PKCS7" -> PKCS7Pad(data, blockSize)
    [] padding = "Zero" -> ZeroPad(data, blockSize)

Unpad(padding, data, blockSize) ==
  CASE padding = "None" -> NoPaddingUnpad(data, blockSize)
    [] padding = "PKCS7" -> PKCS7Unpad(data, blockSize)
    [] padding = "Zero" -> ZeroUnpad(data, blockSize)

(***************************************************************************)
(* Encoding strategies.  Text is a sequence of character codes.           *)
(***************************************************************************)
PadChar == 61

Base64Char(url, v) ==
  IF v < 26 THEN 65 + v
  ELSE IF v < 52 THEN 97 + (v - 26)
  ELSE IF v < 62 THEN 48 + (v - 52)
  ELSE IF v = 62 THEN (IF url THEN 45 ELSE 43)
  ELSE (IF url THEN 95 ELSE 47)

Base64Val(url, c) ==
  IF c >= 65 /\ c <= 90 THEN c - 65
  ELSE IF c >= 97 /\ c <= 122 THEN c - 71
  ELSE IF c >= 48 /\ c <= 57 THEN c + 4
  ELSE IF c = (IF url THEN 45 ELSE 43) THEN 62
  ELSE IF c = (IF url THEN 95 ELSE 47) THEN 63
  ELSE -1

Base64Encode(url, data) ==
  LET n == Len(data)
      at(i) == IF i <= n THEN data[i] ELSE 0
      ch(k) ==
        LET q == (k - 1) \div 4
            r == (k - 1) % 4
            b0 == at(3 * q + 1)
            b1 == at(3 * q + 2)
            b2 == at(3 * q + 3)
        IN CASE r = 0 -> Base64Char(url, b0 \div 4)
             [] r = 1 -> Base64Char(url, (b0 % 4) * 16 + (b1 \div 16))
             [] r = 2 -> IF 3 * q + 2 > n THEN PadChar
                         ELSE Base64Char(url, (b1 % 16) * 4 + (b2 \div 64))
             [] r = 3 -> IF 3 * q + 3 > n THEN PadChar
                         ELSE Base64Char(url, b2 % 64)
  IN Ok([k \in 1..(4 * ((n + 2) \div 3)) |-> ch(k)])

Base64Decode(url, text) ==
  LET m == Len(text)
      pads == IF m = 0 THEN 0
              ELSE IF text[m] # PadChar THEN 0
              ELSE IF text[m - 1] # PadChar THEN 1 ELSE 2
      v(k) == Base64Val(url, text[k])
      by(j) ==
        LET q == (j - 1) \div 3
            r == (j - 1) % 3
        IN CASE r = 0 -> v(4 * q + 1) * 4 + (v(4 * q + 2) \div 16)
             [] r = 1 -> (v(4 * q + 2) % 16) * 16 + (v(4 * q + 3) \div 4)
             [] r = 2 -> (v(4 * q + 3) % 4) * 64 + v(4 * q + 4)
  IN IF m % 4 # 0 THEN Err
     ELSE IF \E k \in 1..(m - pads) : v(k) < 0 THEN Err
     ELSE Ok([j \in 1..(3 * (m \div 4) - pads) |-> by(j)])

HexChar(v) == IF v < 10 THEN 48 + v ELSE 87 + v

HexVal(c) ==
  IF c >= 48 /\ c <= 57 THEN c - 48
  ELSE IF c >= 97 /\ c <= 102 THEN c - 87
  ELSE IF c >= 65 /\ c <= 70 THEN c - 55
  ELSE -1

HexEncode(data) ==
  Ok([k \in 1..(2 * Len(data)) |->
        IF k % 2 = 1 THEN HexChar(data[(k + 1) \div 2] \div 16)
        ELSE HexChar(data[k \div 2] % 16)])

HexDecode(text) ==
  IF Len(text) % 2 # 0 THEN Err
  ELSE IF \E k \in 1..Len(text) : HexVal(text[k]) < 0 THEN Err
  ELSE Ok([j \in 1..(Len(text) \div 2) |-> HexVal(text[2 * j - 1]) * 16 + HexVal(text[2 * j])])

Encode(encoding, data) ==
  CASE encoding = "Raw" -> Ok(data)
    [] encoding = "Base64" -> Base64Encode(FALSE, data)
    [] encoding = "Base64URL" -> Base64Encode(TRUE, data)
    [] encoding = "Hex" -> HexEncode(data)

Decode(encoding, text) ==
  CASE encoding = "Raw" -> Ok(text)
    [] encoding = "Base64" -> Base64Decode(FALSE, text)
    [] encoding = "Base64URL" -> Base64Decode(TRUE, text)
    [] encoding = "Hex" -> HexDecode(text)

(***************************************************************************)
(* Library transforms over the block primitive (crypto/cipher).            *)
(***************************************************************************)
RECURSIVE CarryInto(_, _, _)
CarryInto(b, p, k) ==
  IF p = Len(b) THEN k ELSE (b[p + 1] + CarryInto(b, p + 1, k)) \div 256

\* the counter block b advanced by k (big-endian)
AddCounter(b, k) == [p \in 1..Len(b) |-> (b[p] + CarryInto(b, p, k)) % 256]

Take(n, s) == SubSeq(s, 1, IF n < Len(s) THEN n ELSE Len(s))
Drop(n, s) == SubSeq(s, n + 1, Len(s))

RECURSIVE CBCEncryptBlocks(_, _, _)
CBCEncryptBlocks(key, prev, data) ==
  IF Len(data) = 0 THEN <<>>
  ELSE LET bs == Len(prev)
           c == BlockEncrypt(key, XorBytes(Take(bs, data), prev))
       IN c \o CBCEncryptBlocks(key, c, Drop(bs, data))

RECURSIVE CBCDecryptBlocks(_, _, _)
CBCDecryptBlocks(key, prev, data) ==
  IF Len(data) = 0 THEN <<>>
  ELSE LET bs == Len(prev)
           c == Take(bs, data)
       IN XorBytes(BlockDecrypt(key, c), prev) \o CBCDecryptBlocks(key, c, Drop(bs, data))

RECURSIVE CFBEncryptStream(_, _, _)
CFBEncryptStream(key, prev, data) ==
  IF Len(data) = 0 THEN <<>>
  ELSE LET bs == Len(prev)
           chunk == Take(bs, data)
           c == XorBytes(chunk, BlockEncrypt(key, prev))
       IN IF Len(chunk) < bs THEN c
          ELSE c \o CFBEncryptStream(key, c, Drop(bs, data))

RECURSIVE CFBDecryptStream(_, _, _)
CFBDecryptStream(key, prev, data) ==
  IF Len(data) = 0 THEN <<>>
  ELSE LET bs == Len(prev)
           chunk == Take(bs, data)
           d == XorBytes(chunk, BlockEncrypt(key, prev))
       IN IF Len(chunk) < bs THEN d
          ELSE d \o CFBDecryptStream(key, chunk, Drop(bs, data))

RECURSIVE OFBStream(_, _, _)
OFBStream(key, prev, data) ==
  IF Len(data) = 0 THEN <<>>
  ELSE LET bs == Len(prev)
           o == BlockEncrypt(key, prev)
       IN XorBytes(Take(bs, data), o) \o OFBStream(key, o, Drop(bs, data))

RECURSIVE CTRStream(_, _, _)
CTRStream(key, ctr, data) ==
  IF Len(data) = 0 THEN <<>>
  ELSE LET bs == Len(ctr)
       IN XorBytes(Take(bs, data), BlockEncrypt(key, ctr))
            \o CTRStream(key, AddCounter(ctr, 1), Drop(bs, data))

\* the authentication value of GCM over a nonce and a ciphertext body
RECURSIVE ClassSum(_, _, _)
ClassSum(ct, j, n) ==
  IF j > Len(ct) THEN 0 ELSE (ct[j] + ClassSum(ct, j + n, n)) % 256

GCMTag(key, nonce, ct) ==
  LET j0 == nonce \o <<0, 0, 0, 1>>
      mask == BlockEncrypt(key, j0)
  IN [j \in 1..GCMTagSize |-> ByteXor(mask[j], (ClassSum(ct, j, GCMTagSize) + Len(ct)) % 256)]

GCMSeal(key, nonce, plaintext) ==
  LET ct == CTRStream(key, nonce \o <<0, 0, 0, 2>>, plaintext)
  IN ct \o GCMTag(key, nonce, ct)

\* mutation: Open that returns the text without comparing the tag
GCMOpenUnchecked(key, nonce, data) ==
  IF Len(data) < GCMTagSize THEN Err
  ELSE Ok(CTRStream(key, nonce \o <<0, 0, 0, 2>>, SubSeq(data, 1, Len(data) - GCMTagSize)))

GCMOpen(key, nonce, data) ==
  IF Len(data) < GCMTagSize THEN Err
  ELSE LET ct == Slice(data, 1, Len(data) - GCMTagSize)
           tag == Drop(Len(data) - GCMTagSize, data)
       IN IF tag # GCMTag(key, nonce, ct) THEN Err
          ELSE Ok(CTRStream(key, nonce \o <<0, 0, 0, 2>>, ct))

(***************************************************************************)
(* The block-mode engine.  A result is                                     *)
(* [st |-> "ok" | "err" | "panic", val |-> bytes].                         *)
(***************************************************************************)
Done(v) == [st |-> "ok", val |-> v]
Fail == [st |-> "err", val |-> <<>>]
Panic == [st |-> "panic", val |-> <<>>]

\* GetBuffer re-slices a pooled buffer to size and crashes on a negative size
GetBufferPanics(size) == size < 0

RECURSIVE ECBBlocks(_, _, _, _)
ECBBlocks(key, bs, data, encrypting) ==
  IF Len(data) = 0 THEN <<>>
  ELSE (IF encrypting THEN BlockEncrypt(key, Take(bs, data))
        ELSE BlockDecrypt(key, Take(bs, data)))
       \o ECBBlocks(key, bs, Drop(bs, data), encrypting)

ECBModeEncrypt(key, bs, data) ==
  IF Len(data) % bs # 0 THEN Panic
  ELSE Done(ECBBlocks(key, bs, data, TRUE))

ECBModeDecrypt(key, bs, data) ==
  IF Len(data) % bs # 0 THEN Fail
  ELSE Done(ECBBlocks(key, bs, data, FALSE))

\* mutation: the IV is never put in front
WithoutPrefix(iv, keepIVSeparate, encrypted) == encrypted

\* what an IV mode returns for the transform output: with or without the IV in front
WithPrefix(iv, keepIVSeparate, encrypted) ==
  IF keepIVSeparate THEN encrypted ELSE iv \o encrypted

CBCModeEncrypt(key, bs, iv, keepIVSeparate, data) ==
  IF GoLen(iv) # bs THEN Fail
  ELSE IF Len(data) % bs # 0 THEN Panic
  ELSE Done(WithPrefix(iv, keepIVSeparate, CBCEncryptBlocks(key, iv, data)))

CBCModeDecrypt(key, bs, iv, keepIVSeparate, data) ==
  IF keepIVSeparate
  THEN IF Len(data) % bs # 0 THEN Fail
       ELSE IF GoLen(iv) # bs THEN Panic
       ELSE Done(CBCDecryptBlocks(key, iv, data))
  ELSE IF Len(data) < bs THEN Fail
       ELSE IF Len(Drop(bs, data)) % bs # 0 THEN Fail
       ELSE Done(CBCDecryptBlocks(key, Take(bs, data), Drop(bs, data)))

StreamEncrypt(mode, key, iv, data) ==
  CASE mode = "CFB" -> CFBEncryptStream(key, iv, data)
    [] mode = "OFB" -> OFBStream(key, iv, data)
    [] mode = "CTR" -> CTRStream(key, iv, data)

StreamDecrypt(mode, key, iv, data) ==
  CASE mode = "CFB" -> CFBDecryptStream(key, iv, data)
    [] mode = "OFB" -> OFBStream(key, iv, data)
    [] mode = "CTR" -> CTRStream(key, iv, data)

\* CFBMode, OFBMode and CTRMode share one shape
StreamModeEncrypt(mode, key, bs, iv, keepIVSeparate, data) ==
  IF GoLen(iv) # bs THEN Fail
  ELSE Done(WithPrefix(iv, keepIVSeparate, StreamEncrypt(mode, key, iv, data)))

StreamModeDecrypt(mode, key, bs, iv, keepIVSeparate, data) ==
  IF keepIVSeparate
  THEN IF GoLen(iv) # bs THEN Panic
       ELSE Done(StreamDecrypt(mode, key, iv, data))
  ELSE IF Len(data) < bs THEN Fail
       ELSE Done(StreamDecrypt(mode, key, Take(bs, data), Drop(bs, data)))

\* mutation: the stored IV, cut to the nonce size, serves as the nonce
StoredNonce(random, storedIV) ==
  IF storedIV = Nil THEN random ELSE Take(GCMNonceSize, storedIV)

\* the nonce GCM encryption uses, given the random bytes just read
GCMNonce(random, storedIV) == random

GCMModeEncrypt(key, bs, nonce, data) ==
  IF bs # 16 THEN Fail
  ELSE Done(nonce \o GCMSeal(key, nonce, data))

GCMModeDecrypt(key, bs, data) ==
  IF bs # 16 THEN Fail
  ELSE IF Len(data) < GCMNonceSize THEN Fail
  ELSE LET nonce == Take(GCMNonceSize, data)
           ciphertext == Drop(GCMNonceSize, data)
       IN IF GetBufferPanics(Len(ciphertext) - 16) THEN Panic
          ELSE LET opened == GCMOpen(key, nonce, ciphertext)
               IN IF opened.ok THEN Done(opened.val) ELSE Fail

NeedsIV(mode) == mode \in IVModes

ModeEncrypt(f, bs, nonce, data) ==
  CASE f.mode = "ECB" -> ECBModeEncrypt(f.key, bs, data)
    [] f.mode = "CBC" -> CBCModeEncrypt(f.key, bs, f.miv, f.keep, data)
    [] f.mode \in {"CFB", "OFB", "CTR"} ->
         StreamModeEncrypt(f.mode, f.key, bs, f.miv, f.keep, data)
    [] f.mode = "GCM" -> GCMModeEncrypt(f.key, bs, nonce, data)

ModeDecrypt(f, bs, data) ==
  CASE f.mode = "ECB" -> ECBModeDecrypt(f.key, bs, data)
    [] f.mode = "CBC" -> CBCModeDecrypt(f.key, bs, f.miv, f.keep, data)
    [] f.mode \in {"CFB", "OFB", "CTR"} ->
         StreamModeDecrypt(f.mode, f.key, bs, f.miv, f.keep, data)
    [] f.mode = "GCM" -> GCMModeDecrypt(f.key, bs, data)

(***************************************************************************)
(* Inputs: keys, IVs, random bytes, plaintexts.                            *)
(***************************************************************************)
Bytes(n, seed) == [i \in 1..n |-> (seed + 7 * i) % 256]

Facades == {"a", "b"}

\* the key length the tests give each constructor
KeySize(alg) ==
  CASE alg = "AES" -> 16
    [] alg = "DES" -> 8
    [] alg = "3DES" -> 24
    [] alg = "SM4" -> 16

\* one key of the length the tests use and one that is a byte short
KeyInputs(alg) == {Bytes(KeySize(alg), 40), Bytes(KeySize(alg) - 1, 40)}

\* what one read of n bytes from the random source can return
RandomBytes(n) == {Bytes(n, 100 + 13 * k) : k \in 1..NumRand}

SuppliedIV(alg) == Bytes(BlockSizeOf(alg), 200)
ShortIV(alg) == Bytes(BlockSizeOf(alg) - 1, 220)
IVInputs(alg) == {SuppliedIV(alg), ShortIV(alg)}

PlaintextLens(bs) == {0, 1, bs - 1, bs, bs + 1, MaxBlocks * bs + 1}
Plaintexts(alg) == {Bytes(n, 3) : n \in PlaintextLens(BlockSizeOf(alg))}

\* a plaintext shorter than a block and one longer than a block
ShortPlaintexts(alg) == {Bytes(n, 3) : n \in {1, BlockSizeOf(alg) + 1}}

(***************************************************************************)
(* The facades.                                                            *)
(*   iv    the facade's stored IV                                          *)
(*   mode  the selected block mode; miv and keep are the iv and            *)
(*         keepIVSeparate fields of the CBC/CFB/OFB/CTR mode object        *)
(*   sel   a mode-selection call was made since construction               *)
(*   sup   "no": WithIV never called; "after": WithIV called and no mode   *)
(*         selected since; "before": a mode was selected after WithIV      *)
(***************************************************************************)
NoFacade ==
  [alive |-> FALSE, alg |-> "AES", key |-> Nil, iv |-> Nil, mode |-> "CBC",
   miv |-> Nil, keep |-> FALSE, padding |-> "PKCS7", encoding |-> "Base64",
   sel |-> FALSE, sup |-> "no"]

\* NewAES / NewDES / New3DES / NewSM4 after the key check
NewFacade(alg, key, random) ==
  [alive |-> TRUE, alg |-> alg, key |-> key, iv |-> random, mode |-> "CBC",
   miv |-> Nil, keep |-> FALSE, padding |-> "PKCS7", encoding |-> "Base64",
   sel |-> FALSE, sup |-> "no"]

\* InitBlockMode: keep a stored IV of the right length, otherwise generate one
InitBlockMode(iv, bs, random) ==
  IF iv # Nil /\ Len(iv) = bs THEN iv ELSE random

\* the keepIVSeparate flag of a mode object built by NewCBCMode .. NewCTRMode
NewModeKeep(f) == FALSE

\* ECB() .. GCM()
SelectMode(f, m, random) ==
  LET g == [f EXCEPT !.mode = m, !.sel = TRUE,
                     !.sup = IF f.sup = "no" THEN "no" ELSE "before"]
  IN CASE f.alg = "SM4" -> g
       [] f.alg = "3DES" ->
            [g EXCEPT !.miv = IF NeedsIV(m) THEN f.iv ELSE Nil, !.keep = FALSE]
       [] OTHER ->
            [g EXCEPT !.miv = IF NeedsIV(m)
                              THEN InitBlockMode(f.iv, BlockSizeOf(f.alg), random)
                              ELSE Nil,
                      !.keep = NewModeKeep(f)]

\* the keepIVSeparate flag after WithIV on a mode that needs an IV
WithIVKeep(f) == IF f.alg = "3DES" THEN f.keep ELSE TRUE

\* mutation: WithIV stores the IV and leaves the mode object as it was
WithIVStoredOnly(f, iv) == [f EXCEPT !.iv = iv, !.sup = "after"]

\* WithIV(iv) of AESEncryptor, DESEncryptor, TripleDESEncryptor
WithIV(f, iv) ==
  LET g == [f EXCEPT !.iv = iv, !.sup = "after"]
  IN IF NeedsIV(f.mode) THEN [g EXCEPT !.miv = iv, !.keep = WithIVKeep(f)] ELSE g

\* WithIV(iv) of SM4Encryptor, which panics on a wrong length
SM4WithIVPanics(iv) == Len(iv) # SM4BlockSize
SM4WithIV(f, iv) == [f EXCEPT !.iv = iv, !.sup = "after"]

\* mutation: Reset leaves the padding and the encoding as configured
ResetKeepsPadding(f) ==
  [f EXCEPT !.iv = Nil, !.mode = "CBC", !.miv = Nil, !.keep = FALSE, !.sel = FALSE, !.sup = "no"]

\* Reset of the four symmetric facades
ResetFacade(f) ==
  [f EXCEPT !.iv = Nil, !.mode = "CBC", !.miv = Nil, !.keep = FALSE,
            !.padding = "PKCS7", !.encoding = "Base64", !.sel = FALSE, !.sup = "no"]

(***************************************************************************)
(* Encrypt and Decrypt.  A result is [st, out, iv, rnd, fed, used]:        *)
(*   st    "ok", "err" or "panic"                                          *)
(*   out   the returned bytes                                              *)
(*   iv    the facade's stored IV after the call                           *)
(*   rnd   the bytes read from the random source (Nil when none)           *)
(*   fed   Encrypt: how many bytes were handed to the mode transform;      *)
(*         Decrypt: how many bytes the mode transform returned             *)
(*   used  the IV the transform ran with (Nil when none)                   *)
(***************************************************************************)
Res(st, out, iv, rnd, fed, used) ==
  [st |-> st, out |-> out, iv |-> iv, rnd |-> rnd, fed |-> fed, used |-> used]

\* whether Encrypt pads the plaintext before the transform
SymNeedsPadding(f) == TRUE
SM4NeedsPadding(f) == f.mode = "ECB" \/ f.mode = "CBC"

\* mutation: Encrypt generates an IV on every call
AlwaysNewIV(f) == NeedsIV(f.mode)

\* whether Encrypt generates the stored IV: only while there is none
NeedsNewIV(f) == NeedsIV(f.mode) /\ f.iv = Nil

\* SymmetricEncryptor.Encrypt (AES, DES, 3DES)
SymEncrypt(f, plaintext, randomIV, randomNonce) ==
  LET bs == BlockSizeOf(f.alg)
      gen == NeedsNewIV(f)
      iv1 == IF gen THEN randomIV ELSE f.iv
      rnd == IF gen THEN randomIV
             ELSE IF f.mode = "GCM" /\ bs = 16 THEN randomNonce ELSE Nil
      padded == IF SymNeedsPadding(f) THEN Pad(f.padding, plaintext, bs) ELSE Ok(plaintext)
      encrypted == ModeEncrypt(f, bs, GCMNonce(randomNonce, f.iv), padded.val)
      used == IF NeedsIV(f.mode) THEN f.miv ELSE Nil
  IN IF NeedsIV(f.mode) /\ ~gen /\ Len(f.iv) # bs THEN Res("err", <<>>, f.iv, Nil, 0, Nil)
     ELSE IF ~padded.ok THEN Res("err", <<>>, iv1, IF gen THEN randomIV ELSE Nil, 0, Nil)
     ELSE IF encrypted.st # "ok" THEN Res(encrypted.st, <<>>, iv1, rnd, Len(padded.val), used)
     ELSE Res("ok", Encode(f.encoding, encrypted.val).val, iv1, rnd, Len(padded.val), used)

\* SymmetricEncryptor.Decrypt (AES, DES, 3DES)
SymDecrypt(f, ciphertext) ==
  LET bs == BlockSizeOf(f.alg)
      decoded == Decode(f.encoding, ciphertext)
      decrypted == ModeDecrypt(f, bs, decoded.val)
      unpadded == Unpad(f.padding, decrypted.val, bs)
  IN IF ~decoded.ok THEN Res("err", <<>>, f.iv, Nil, 0, Nil)
     ELSE IF decrypted.st # "ok" THEN Res(decrypted.st, <<>>, f.iv, Nil, 0, Nil)
     ELSE IF ~unpadded.ok THEN Res("err", <<>>, f.iv, Nil, Len(decrypted.val), Nil)
     ELSE Res("ok", unpadded.val, f.iv, Nil, Len(decrypted.val), Nil)

\* SM4Encryptor.Encrypt
SM4Encrypt(f, plaintext, randomIV, randomNonce) ==
  LET bs == SM4BlockSize
      processed == IF SM4NeedsPadding(f) THEN Pad(f.padding, plaintext, bs) ELSE Ok(plaintext)
      gen == NeedsNewIV(f)
      iv1 == IF gen THEN randomIV ELSE f.iv
      nonce == GCMNonce(randomNonce, f.iv)
      rnd == IF gen THEN randomIV ELSE IF f.mode = "GCM" THEN randomNonce ELSE Nil
      encrypted ==
        CASE f.mode = "ECB" -> ECBBlocks(f.key, bs, processed.val, TRUE)
          [] f.mode = "CBC" -> CBCEncryptBlocks(f.key, iv1, processed.val)
          [] f.mode \in {"CFB", "OFB", "CTR"} -> StreamEncrypt(f.mode, f.key, iv1, processed.val)
          [] f.mode = "GCM" -> nonce \o GCMSeal(f.key, nonce, processed.val)
  IN IF ~processed.ok THEN Res("err", <<>>, f.iv, Nil, 0, Nil)
     ELSE Res("ok", Encode(f.encoding, encrypted).val, iv1, rnd, Len(processed.val),
              IF NeedsIV(f.mode) THEN iv1 ELSE Nil)

\* SM4Encryptor.Decrypt
SM4Decrypt(f, ciphertext) ==
  LET bs == SM4BlockSize
      decoded == Decode(f.encoding, ciphertext)
      d == decoded.val
      badIV == f.iv = Nil \/ Len(f.iv) # bs
      block == IF f.mode = "ECB" THEN ECBBlocks(f.key, bs, d, FALSE)
               ELSE CBCDecryptBlocks(f.key, f.iv, d)
      unpadded == Unpad(f.padding, block, bs)
      opened == GCMOpen(f.key, Take(GCMNonceSize, d), Drop(GCMNonceSize, d))
      bad(fed) == Res("err", <<>>, f.iv, Nil, fed, Nil)
  IN IF ~decoded.ok THEN bad(0)
     ELSE CASE f.mode \in {"ECB", "CBC"} ->
                 IF f.mode = "CBC" /\ badIV THEN bad(0)
                 ELSE IF Len(d) % bs # 0 THEN Res("panic", <<>>, f.iv, Nil, 0, Nil)
                 ELSE IF ~unpadded.ok THEN bad(Len(block))
                 ELSE Res("ok", unpadded.val, f.iv, Nil, Len(block), Nil)
            [] f.mode \in {"CFB", "OFB", "CTR"} ->
                 IF badIV THEN bad(0)
                 ELSE Res("ok", StreamDecrypt(f.mode, f.key, f.iv, d), f.iv, Nil, Len(d), Nil)
            [] f.mode = "GCM" ->
                 IF Len(d) < GCMNonceSize THEN bad(0)
                 ELSE IF ~opened.ok THEN bad(0)
                 ELSE Res("ok", opened.val, f.iv, Nil, Len(opened.val), Nil)

EncryptOf(f, plaintext, randomIV, randomNonce) ==
  IF f.alg = "SM4" THEN SM4Encrypt(f, plaintext, randomIV, randomNonce)
  ELSE SymEncrypt(f, plaintext, randomIV, randomNonce)

DecryptOf(f, ciphertext) ==
  IF f.alg = "SM4" THEN SM4Decrypt(f, ciphertext) ELSE SymDecrypt(f, ciphertext)

(***************************************************************************)
(* Constructors, GetKey and the wiping done by Reset.                      *)
(***************************************************************************)
\* the key lengths the constructors are tried with
KeyLens == {0, 8, 15, 16, 17, 24, 32, 33}

\* NewX / NewConcurrentX: the outcome of the leading key-length check
NewResult(alg, key) == IF ValidKeyLen(alg, Len(key)) THEN "ok" ELSE "err"

\* mutation: MustNewX hands the error on to its caller
MustResultErr(st) == st

\* MustNewX / MustNewConcurrentX: a construction error becomes a panic
MustResult(st) == IF st = "err" THEN "panic" ELSE st

\* mutation: NewConcurrentX sets the key and leaves the IV as it finds it
ConcurrentSetupKeyOnly(x, key, random) == [x EXCEPT !.key = key]

\* NewConcurrentX after Get: the key is copied in and a fresh IV is read
ConcurrentSetup(x, key, random) == [x EXCEPT !.key = key, !.iv = random]

\* whether GetKey returns the facade's own key slice (SM4) or a copy of it
GetKeyShares(alg) == alg = "SM4"

\* the facade after its caller wrote a byte into the slice GetKey returned
AfterKeyWrite(f) ==
  IF GetKeyShares(f.alg) THEN [f EXCEPT !.key[1] = ByteXor(@, 1)] ELSE f

\* the bytes left in the stored IV's array by the wiping loop of Reset
ZeroedIV(iv) == IF iv = Nil THEN Nil ELSE Repeat(0, Len(iv))

\* whether the facade stores the slice WithIV was given (AES, DES, 3DES) or a copy
\* of its bytes (SM4)
WithIVShares(alg) == alg # "SM4"

\* the bytes of the slice the caller gave WithIV, after Reset has run its wiping loop
\* over the stored IV
CallerIVAfterReset(f) ==
  IF WithIVShares(f.alg) /\ f.sup # "no" THEN ZeroedIV(f.iv) ELSE f.iv

\* the facade after the caller wrote a byte into the slice it gave WithIV; the mode
\* object holds the same slice when it was built from, or given, the stored IV
AfterIVWrite(f) ==
  IF WithIVShares(f.alg)
  THEN [f EXCEPT !.iv[1] = ByteXor(@, 1),
                 !.miv = IF f.miv = f.iv THEN [f.iv EXCEPT ![1] = ByteXor(@, 1)] ELSE @]
  ELSE f

(***************************************************************************)
(* ConcurrentPool and the goroutines that borrow facades from it.          *)
(* pool: the algorithm of the pool, init (the concurrent pools are         *)
(* initialised), std (the instances lying in EncryptorPools), the          *)
(* concurrent pool's counters, free (the instances lying in its            *)
(* sync.Pool), inst (the facade instances) and gor (one call record per    *)
(* goroutine).  A goroutine walks through                                  *)
(*   idle -> failed                 the constructor refused the key        *)
(*   idle -> get -> take -> held    NewConcurrentX: Get counts, then takes *)
(*   idle -> held                   NewX                                   *)
(*   held -> ready -> sent -> used  CBC(), Encrypt, Decrypt                *)
(*   used -> put -> dec -> done     Release: Reset, Put                    *)
(***************************************************************************)
Goroutines == {"g1", "g2"}

\* facade instances that can exist at one time
MaxInst == 2
Instances == 1..MaxInst

\* maxSize of the ConcurrentPool
PoolMaxSize == 1

NoCall ==
  [pc |-> "idle", obj |-> 0, conc |-> FALSE, must |-> FALSE, key |-> Nil,
   st |-> "ok", p |-> Nil, ct |-> Nil, out |-> Nil, cfg |-> "-"]

PoolIdle ==
  [alg |-> "AES", init |-> TRUE, std |-> {}, active |-> 0, created |-> 0, reused |-> 0,
   free |-> {}, inst |-> [i \in Instances |-> NoFacade],
   gor |-> [g \in Goroutines |-> NoCall]]

\* mutation: Get hands an instance out and leaves it in the pool
PoolPeek(free, i) == free

\* sync.Pool.Get removes the instance it returns
PoolTake(free, i) == free \ {i}

\* mutation: Put leaves the active counter as it is
PutActiveKept(active) == active

\* the active counter after Put
PutActive(active) == active - 1

\* each goroutine brings its own key and its own plaintext
KeyOf(g, n) == Bytes(n, IF g = "g1" THEN 40 ELSE 90)
PlainOf(g, alg) == IF g = "g1" THEN Bytes(1, 3) ELSE Bytes(BlockSizeOf(alg) + 1, 5)

(***************************************************************************)
(* ConcurrentBufferPool.  bp: the counters, free (how many buffers of each *)
(* capacity lie in the sync.Pool) and one record per goroutine with the    *)
(* requested size and the capacity and length of the buffer it got.        *)
(***************************************************************************)
\* minSize, maxSize and cacheSize of the buffer pool
BufMinSize == 2
BufMaxSize == 4
BufCacheSize == 1

\* requested sizes: none, below minSize, between the two, maxSize, above maxSize
BufSizes == {0, BufMinSize - 1, BufMinSize + 1, BufMaxSize, BufMaxSize + 1}
BufCaps == BufMinSize..BufMaxSize

NoBuf == [pc |-> "idle", size |-> 0, cap |-> 0, len |-> 0]

BufIdle ==
  [active |-> 0, created |-> 0, reused |-> 0, free |-> [c \in BufCaps |-> 0],
   gor |-> [g \in Goroutines |-> NoBuf]]

\* PutBuffer turns away a buffer whose capacity is outside minSize..maxSize
BufRefused(cap) == cap < BufMinSize \/ cap > BufMaxSize

(***************************************************************************)
(* PKCS7 probe.  pk: a block size and a byte string, what Pad made of the  *)
(* string and what Unpad returned.                                         *)
(***************************************************************************)
\* the longest byte string given to Pad and Unpad
MaxPadLen == 4

PadBlockSizes == {-1, 0, 1, 2, 3, 255, 256, 257}
PadInputs == UNION {[1..n -> 0..3] : n \in 0..MaxPadLen}

PadIdle == [phase |-> "off", bs |-> 1, data |-> <<>>, padded |-> Err, res |-> Err]

(***************************************************************************)
(* InitConcurrentPools.  ini: mem is what every goroutine can read of the  *)
(* ConcurrentPools struct (the pool fields that are set and the            *)
(* initialized flag); pending are the stores of the goroutine in the       *)
(* locked section that have not reached mem yet; lock is the holder of     *)
(* the mutex; built counts the constructions of each pool.  A goroutine    *)
(* walks through                                                           *)
(*   idle -> lock -> check -> build -> unlock -> in -> used                *)
(*   idle -> in                     the first read of initialized was true *)
(*   check -> unlock                the second read was true               *)
(* and in the last step reads the pool fields, as NewConcurrentX does.     *)
(***************************************************************************)
PoolNames == {"Buffer", "AES", "DES", "TripleDES", "SM4", "RSA", "SM2"}

InitFlag == "initialized"

NoInitCall == [pc |-> "idle", fast |-> FALSE, saw |-> {}]

IniIdle ==
  [mem |-> {}, pending |-> {}, lock |-> "-", built |-> [p \in PoolNames |-> 0],
   gor |-> [g \in Goroutines |-> NoInitCall]]

(***************************************************************************)
(* The asymmetric facades (RSA, SM2) and their pools.  asym: the           *)
(* algorithm, whether the concurrent pools are initialised, std and conc   *)
(* (the instances lying in EncryptorPools and in ConcurrentPools), inst    *)
(* (per instance, whose public and whose private key it holds) and one     *)
(* call record per holder:                                                 *)
(*   idle -> held -> probed -> keyed -> done                               *)
(* enc, dec, sign and verify are what the four operations returned when    *)
(* the holder called them before supplying a key.                          *)
(***************************************************************************)
AsymAlgorithms == {"RSA", "SM2"}

NoKey == "-"

NoAsymFacade == [alive |-> FALSE, pub |-> NoKey, priv |-> NoKey]

NoAsymCall ==
  [pc |-> "idle", obj |-> 0, conc |-> FALSE, enc |-> "-", dec |-> "-", sign |-> "-",
   verify |-> "-"]

AsymIdle ==
  [alg |-> "RSA", init |-> FALSE, std |-> {}, conc |-> {},
   inst |-> [i \in Instances |-> NoAsymFacade],
   gor |-> [g \in Goroutines |-> NoAsymCall]]

\* RSAEncryptor.Reset, SM2Encryptor.Reset: encoding, key size and uid go back to
\* their defaults, the keys stay
AsymReset(x) == x

\* Encrypt and Verify need the public key, Decrypt and Sign the private key
NeedsPublic(x) == IF x.pub = NoKey THEN "no public key" ELSE "ran"
NeedsPrivate(x) == IF x.priv = NoKey THEN "no private key" ELSE "ran"

(***************************************************************************)
(* State machine.  last describes the most recent call; a mode, padding   *)
(* or encoding call leaves it Idle.                                        *)
(*   op     "New", "WithIV", "Reset", "Encrypt", "Decrypt", or "cfg"       *)
(*   p      the plaintext (of the Encrypt, or of the Encrypt whose output  *)
(*          the Decrypt was given)                                        *)
(*   in     the text given to Decrypt                                      *)
(*   prev   for Encrypt: the output of the directly preceding successful   *)
(*          Encrypt of the same plaintext, else Nil                        *)
(*   ivPre  the facade's stored IV before the call                         *)
(*   from   for Decrypt: the facade that produced the ciphertext; for      *)
(*          Encrypt: the facade that produced prev                         *)
(*   tamper for Decrypt: which part of the decoded ciphertext was altered  *)
(* A session is: configuration calls, Encrypt, then either Encrypt again  *)
(* on the same plaintext or Decrypt of what Encrypt returned.  Encrypt    *)
(* and Decrypt leave the configuration alone, so every facade state meets *)
(* every plaintext.                                                        *)
(***************************************************************************)
Idle ==
  [op |-> "cfg", f |-> "-", st |-> "ok", p |-> Nil, in |-> Nil, out |-> Nil,
   rnd |-> Nil, prev |-> Nil, ivPre |-> Nil, from |-> "-", tamper |-> "none",
   fed |-> 0, used |-> Nil]

Init ==
  /\ fac = [f \in Facades |-> NoFacade]
  /\ last = Idle
  /\ pool = PoolIdle
  /\ bp = BufIdle
  /\ pk = PadIdle
  /\ ini = IniIdle
  /\ asym = AsymIdle

\* a second facade is built for the algorithm of the first
AlgInputs(f) ==
  IF \E g \in Facades : fac[g].alive
  THEN {fac[g].alg : g \in {h \in Facades : fac[h].alive}}
  ELSE Algorithms

New(f) ==
  /\ ~fac[f].alive
  /\ UNCHANGED others
  /\ \E alg \in AlgInputs(f) :
       \E key \in KeyInputs(alg), random \in RandomBytes(BlockSizeOf(alg)) :
         IF ValidKeyLen(alg, Len(key))
         THEN /\ fac' = [fac EXCEPT ![f] = NewFacade(alg, key, random)]
              /\ last' = [Idle EXCEPT !.op = "New", !.f = f]
         ELSE /\ fac' = fac
              /\ last' = [Idle EXCEPT !.op = "New", !.f = f, !.st = "err"]

\* the random reads a mode-selection call can make
ModeDraws(f, m) ==
  IF f.alg \in {"AES", "DES"} /\ NeedsIV(m)
     /\ InitBlockMode(f.iv, BlockSizeOf(f.alg), Nil) = Nil
  THEN RandomBytes(BlockSizeOf(f.alg)) ELSE {Nil}

SetMode(f, m) ==
  /\ fac[f].alive
  /\ UNCHANGED others
  /\ \E random \in ModeDraws(fac[f], m) :
       fac' = [fac EXCEPT ![f] = SelectMode(fac[f], m, random)]
  /\ last' = Idle

ECB(f) == SetMode(f, "ECB")
CBC(f) == SetMode(f, "CBC")
CFB(f) == SetMode(f, "CFB")
OFB(f) == SetMode(f, "OFB")
CTR(f) == SetMode(f, "CTR")
GCM(f) == SetMode(f, "GCM")

SetPadding(f, padding) ==
  /\ fac[f].alive
  /\ UNCHANGED others
  /\ fac' = [fac EXCEPT ![f].padding = padding]
  /\ last' = Idle

NoPadding(f) == SetPadding(f, "None")
PKCS7(f) == SetPadding(f, "PKCS7")
ZeroPadding(f) == SetPadding(f, "Zero")

SetEncoding(f, encoding) ==
  /\ fac[f].alive
  /\ UNCHANGED others
  /\ fac' = [fac EXCEPT ![f].encoding = encoding]
  /\ last' = Idle

NoEncoding(f) == SetEncoding(f, "Raw")
Base64(f) == SetEncoding(f, "Base64")
Base64Safe(f) == SetEncoding(f, "Base64URL")
Hex(f) == SetEncoding(f, "Hex")

\* WithIV with one of ivs
WithIVWith(f, ivs) ==
  /\ fac[f].alive
  /\ UNCHANGED others
  /\ \E iv \in ivs :
       IF fac[f].alg = "SM4"
       THEN IF SM4WithIVPanics(iv)
            THEN /\ fac' = fac
                 /\ last' = [Idle EXCEPT !.op = "WithIV", !.f = f, !.st = "panic"]
            ELSE /\ fac' = [fac EXCEPT ![f] = SM4WithIV(fac[f], iv)]
                 /\ last' = [Idle EXCEPT !.op = "WithIV", !.f = f]
       ELSE /\ fac' = [fac EXCEPT ![f] = WithIV(fac[f], iv)]
            /\ last' = [Idle EXCEPT !.op = "WithIV", !.f = f]

WithIVCall(f) == WithIVWith(f, IVInputs(fac[f].alg))
WithIVBlock(f) == WithIVWith(f, {SuppliedIV(fac[f].alg)})

Reset(f) ==
  /\ fac[f].alive
  /\ UNCHANGED others
  /\ fac' = [fac EXCEPT ![f] = ResetFacade(fac[f])]
  /\ last' = [Idle EXCEPT !.op = "Reset", !.f = f, !.ivPre = fac[f].iv,
                          !.out = ZeroedIV(fac[f].iv)]

\* the random reads an Encrypt call can make
IVDraws(f) ==
  IF NeedsNewIV(f) THEN RandomBytes(BlockSizeOf(f.alg)) ELSE {Nil}
NonceDraws(f) ==
  IF f.mode = "GCM" THEN RandomBytes(GCMNonceSize) ELSE {Nil}

\* Encrypt of one of texts, or of the plaintext just encrypted
EncryptWith(f, texts) ==
  /\ fac[f].alive
  /\ UNCHANGED others
  /\ last.op # "Decrypt"
  /\ last.op = "Encrypt" => last.st = "ok"
  /\ \E p \in (IF last.op = "Encrypt" THEN {last.p} ELSE texts),
        randomIV \in IVDraws(fac[f]), randomNonce \in NonceDraws(fac[f]) :
       LET r == EncryptOf(fac[f], p, randomIV, randomNonce)
       IN /\ fac' = [fac EXCEPT ![f].iv = r.iv]
          /\ last' = [op |-> "Encrypt", f |-> f, st |-> r.st, p |-> p, in |-> p,
                      out |-> r.out, rnd |-> r.rnd,
                      prev |-> IF last.op = "Encrypt" THEN last.out ELSE Nil,
                      ivPre |-> fac[f].iv,
                      from |-> IF last.op = "Encrypt" THEN last.f ELSE f,
                      tamper |-> "none", fed |-> r.fed, used |-> r.used]

Encrypt(f) == EncryptWith(f, Plaintexts(fac[f].alg))
EncryptShort(f) == EncryptWith(f, ShortPlaintexts(fac[f].alg))

\* the decoded ciphertext with one byte altered
TamperKinds == {"nonce", "body", "tag"}
TamperDeltas == {1, 255}
TamperPos(raw, kind) ==
  CASE kind = "nonce" -> 1
    [] kind = "body" -> IF Len(raw) < GCMNonceSize + 1 THEN Len(raw) ELSE GCMNonceSize + 1
    [] kind = "tag" -> Len(raw)
Tampered(raw, kind, delta) ==
  [raw EXCEPT ![TamperPos(raw, kind)] = ByteXor(raw[TamperPos(raw, kind)], delta)]

\* the texts Decrypt is given: the ciphertext just produced and, in GCM, altered ones
DecryptInputs ==
  LET encoding == fac[last.f].encoding
      raw == Decode(encoding, last.out).val
  IN {[text |-> last.out, tamper |-> "none"]}
     \cup (IF fac[last.f].mode # "GCM" \/ Len(raw) = 0 THEN {}
           ELSE {[text |-> Encode(encoding, Tampered(raw, k, d)).val, tamper |-> k] :
                   k \in TamperKinds, d \in TamperDeltas})

Decrypt(f) ==
  /\ fac[f].alive
  /\ UNCHANGED others
  /\ last.op = "Encrypt" /\ last.st = "ok" /\ last.prev = Nil
  /\ \E input \in DecryptInputs :
       LET r == DecryptOf(fac[f], input.text)
       IN last' = [op |-> "Decrypt", f |-> f, st |-> r.st, p |-> last.p,
                   in |-> input.text, out |-> r.out, rnd |-> Nil, prev |-> Nil,
                   ivPre |-> fac[f].iv, from |-> last.f, tamper |-> input.tamper,
                   fed |-> r.fed, used |-> Nil]
  /\ fac' = fac

\* one facade: every mode, padding and encoding, every plaintext length
Next ==
  \/ \E f \in {"a"} : New(f)
  \/ \E f \in {"a"} : ECB(f)
  \/ \E f \in {"a"} : CBC(f)
  \/ \E f \in {"a"} : CFB(f)
  \/ \E f \in {"a"} : OFB(f)
  \/ \E f \in {"a"} : CTR(f)
  \/ \E f \in {"a"} : GCM(f)
  \/ \E f \in {"a"} : NoPadding(f)
  \/ \E f \in {"a"} : PKCS7(f)
  \/ \E f \in {"a"} : ZeroPadding(f)
  \/ \E f \in {"a"} : NoEncoding(f)
  \/ \E f \in {"a"} : Base64(f)
  \/ \E f \in {"a"} : Base64Safe(f)
  \/ \E f \in {"a"} : Hex(f)
  \/ \E f \in {"a"} : Encrypt(f)
  \/ \E f \in {"a"} : Decrypt(f)

Spec == Init /\ [][Next]_vars

\* one facade: the IV modes and GCM with WithIV and Reset, default padding and encoding
NextIV ==
  \/ \E f \in {"a"} : New(f)
  \/ \E f \in {"a"} : CBC(f)
  \/ \E f \in {"a"} : CFB(f)
  \/ \E f \in {"a"} : OFB(f)
  \/ \E f \in {"a"} : CTR(f)
  \/ \E f \in {"a"} : GCM(f)
  \/ \E f \in {"a"} : WithIVCall(f)
  \/ \E f \in {"a"} : Reset(f)
  \/ \E f \in {"a"} : EncryptShort(f)
  \/ \E f \in {"a"} : Decrypt(f)

SpecIV == Init /\ [][NextIV]_vars

\* two facades side by side, in the IV modes with the default padding and encoding
NextPair ==
  \/ \E f \in Facades : New(f)
  \/ \E f \in Facades : CBC(f)
  \/ \E f \in Facades : CFB(f)
  \/ \E f \in Facades : OFB(f)
  \/ \E f \in Facades : CTR(f)
  \/ \E f \in Facades : WithIVBlock(f)
  \/ \E f \in Facades : EncryptShort(f)
  \/ \E f \in Facades : Decrypt(f)

SpecPair == Init /\ [][NextPair]_vars

(***************************************************************************)
(* One facade in every configuration, with Reset, GetKey and Decrypt of    *)
(* texts that no Encrypt produced.                                         *)
(***************************************************************************)
\* the caller writes a byte into the slice GetKey returned
WriteReturnedKey(f) ==
  /\ fac[f].alive
  /\ fac' = [fac EXCEPT ![f] = AfterKeyWrite(fac[f])]
  /\ last' = [Idle EXCEPT !.op = "GetKey", !.f = f]
  /\ UNCHANGED others

\* the caller writes a byte into the key slice it gave the constructor, which
\* copied the bytes into the facade's own slice
WriteCallerKey(f) ==
  /\ fac[f].alive
  /\ fac' = fac
  /\ last' = [Idle EXCEPT !.op = "KeyArg", !.f = f]
  /\ UNCHANGED others

\* encoded texts of several lengths that did not come from Encrypt
ForeignTexts(f) ==
  {Encode(f.encoding, Bytes(n, 9)).val :
     n \in {0, GCMNonceSize - 1, GCMNonceSize + GCMTagSize, 2 * BlockSizeOf(f.alg)}}

DecryptForeign(f) ==
  /\ fac[f].alive
  /\ last.op \notin {"Encrypt", "Decrypt"}
  /\ \E text \in ForeignTexts(fac[f]) :
       LET r == DecryptOf(fac[f], text)
       IN last' = [Idle EXCEPT !.op = "Decrypt", !.f = f, !.st = r.st, !.in = text,
                               !.out = r.out, !.ivPre = fac[f].iv, !.tamper = "foreign",
                               !.fed = r.fed]
  /\ fac' = fac
  /\ UNCHANGED others

NextCfg ==
  \/ \E f \in {"a"} : New(f)
  \/ \E f \in {"a"} : CBC(f)
  \/ \E f \in {"a"} : CTR(f)
  \/ \E f \in {"a"} : GCM(f)
  \/ \E f \in {"a"} : NoPadding(f)
  \/ \E f \in {"a"} : PKCS7(f)
  \/ \E f \in {"a"} : Hex(f)
  \/ \E f \in {"a"} : WithIVBlock(f)
  \/ \E f \in {"a"} : Reset(f)
  \/ \E f \in {"a"} : WriteReturnedKey(f)
  \/ \E f \in {"a"} : WriteCallerKey(f)
  \/ \E f \in {"a"} : EncryptShort(f)
  \/ \E f \in {"a"} : Decrypt(f)
  \/ \E f \in {"a"} : DecryptForeign(f)

SpecCfg == Init /\ [][NextCfg]_vars

(***************************************************************************)
(* One facade in every mode, with WithIV, Reset, writes into the slice     *)
(* WithIV was given, and Decrypt of texts of every length.                 *)
(***************************************************************************)
\* the caller writes a byte into the slice it gave WithIV
WriteCallerIV(f) ==
  /\ fac[f].alive
  /\ fac[f].sup # "no" /\ fac[f].iv # Nil
  /\ fac' = [fac EXCEPT ![f] = AfterIVWrite(fac[f])]
  /\ last' = [Idle EXCEPT !.op = "IVArg", !.f = f, !.ivPre = fac[f].iv]
  /\ UNCHANGED others

\* decoded lengths around the block size, the nonce size and nonce plus tag
AnyLens(bs) ==
  {0, 1, bs - 1, bs + 1, 2 * bs, GCMNonceSize, GCMNonceSize + GCMTagSize - 1,
   GCMNonceSize + GCMTagSize}

AnyTexts(f) == {Encode(f.encoding, Bytes(n, 9)).val : n \in AnyLens(BlockSizeOf(f.alg))}

DecryptAny(f) ==
  /\ fac[f].alive
  /\ last.op \notin {"Encrypt", "Decrypt"}
  /\ \E text \in AnyTexts(fac[f]) :
       LET r == DecryptOf(fac[f], text)
       IN last' = [Idle EXCEPT !.op = "Decrypt", !.f = f, !.st = r.st, !.in = text,
                               !.out = r.out, !.ivPre = fac[f].iv, !.tamper = "foreign",
                               !.fed = r.fed]
  /\ fac' = fac
  /\ UNCHANGED others

NextDec ==
  \/ \E f \in {"a"} : New(f)
  \/ \E f \in {"a"} : ECB(f)
  \/ \E f \in {"a"} : CBC(f)
  \/ \E f \in {"a"} : CFB(f)
  \/ \E f \in {"a"} : OFB(f)
  \/ \E f \in {"a"} : CTR(f)
  \/ \E f \in {"a"} : GCM(f)
  \/ \E f \in {"a"} : WithIVCall(f)
  \/ \E f \in {"a"} : Reset(f)
  \/ \E f \in {"a"} : WriteCallerIV(f)
  \/ \E f \in {"a"} : EncryptShort(f)
  \/ \E f \in {"a"} : Decrypt(f)
  \/ \E f \in {"a"} : DecryptAny(f)

SpecDec == Init /\ [][NextDec]_vars

(***************************************************************************)
(* Goroutines that construct facades, use them and release them.  The      *)
(* concurrent pools are initialised (InitConcurrentPools has run).         *)
(***************************************************************************)
InitPool ==
  /\ fac = [f \in Facades |-> NoFacade]
  /\ last = Idle
  /\ pool \in {[PoolIdle EXCEPT !.alg = a] : a \in Algorithms}
  /\ bp = BufIdle
  /\ pk = PadIdle
  /\ ini = IniIdle
  /\ asym = AsymIdle

\* g1 tries every key length; g2 is a second borrower with a key of the usual length
KeyLensOf(g) == IF g = "g1" THEN KeyLens ELSE {KeySize(pool.alg)}

\* the key of the pool's newFunc
TempKey(alg) == Repeat(0, KeySize(alg))

Unused == {i \in Instances : ~pool.inst[i].alive}
NewId == CHOOSE i \in Unused : \A j \in Unused : i <= j

\* a constructor call: the key check, then for NewX an instance from EncryptorPools
\* (a pooled one or a new one) with every field set, and for NewConcurrentX
\* InitConcurrentPools and the walk through Get
CallNew(g, conc, must) ==
  /\ pool.gor[g].pc = "idle"
  /\ \E n \in KeyLensOf(g) :
       LET key == KeyOf(g, n)
           st == NewResult(pool.alg, key)
           call == [NoCall EXCEPT !.conc = conc, !.must = must, !.key = key,
                                  !.st = IF must THEN MustResult(st) ELSE st]
       IN IF st # "ok"
          THEN pool' = [pool EXCEPT !.gor[g] = [call EXCEPT !.pc = "failed"]]
          ELSE IF conc
          THEN pool' = [pool EXCEPT !.init = TRUE, !.gor[g] = [call EXCEPT !.pc = "get"]]
          ELSE \E random \in RandomBytes(BlockSizeOf(pool.alg)) :
                 \/ \E i \in pool.std :
                      pool' = [pool EXCEPT !.std = @ \ {i},
                                           !.inst[i] = NewFacade(pool.alg, key, random),
                                           !.gor[g] = [call EXCEPT !.pc = "held", !.obj = i]]
                 \/ /\ Unused # {}
                    /\ pool' = [pool EXCEPT !.inst[NewId] = NewFacade(pool.alg, key, random),
                                            !.gor[g] = [call EXCEPT !.pc = "held", !.obj = NewId]]
  /\ UNCHANGED <<fac, last, bp, pk, ini, asym>>

NewX(g) == g = "g1" /\ CallNew(g, FALSE, FALSE)
MustNewX(g) == g = "g1" /\ CallNew(g, FALSE, TRUE)
NewConcurrentX(g) == CallNew(g, TRUE, FALSE)
MustNewConcurrentX(g) == g = "g1" /\ CallNew(g, TRUE, TRUE)

\* ConcurrentPool.Get, first half: the active counter goes up
GetCount(g) ==
  /\ pool.gor[g].pc = "get"
  /\ pool' = [pool EXCEPT !.active = @ + 1, !.gor[g].pc = "take"]
  /\ UNCHANGED <<fac, last, bp, pk, ini, asym>>

\* ConcurrentPool.Get, second half, and the rest of NewConcurrentX: the sync.Pool
\* hands out a pooled instance or has newFunc build one with NewX, which takes it
\* from EncryptorPools; the key and a fresh IV go in
GetTake(g) ==
  /\ pool.gor[g].pc = "take"
  /\ \E random \in RandomBytes(BlockSizeOf(pool.alg)) :
       \/ \E i \in pool.free :
            pool' = [pool EXCEPT !.free = PoolTake(@, i), !.reused = @ + 1,
                                 !.inst[i] = ConcurrentSetup(@, pool.gor[g].key, random),
                                 !.gor[g].pc = "held", !.gor[g].obj = i]
       \/ \E i \in pool.std \cup (IF Unused # {} THEN {NewId} ELSE {}) :
            pool' = [pool EXCEPT !.created = @ + 1, !.reused = @ + 1, !.std = @ \ {i},
                                 !.inst[i] =
                                    ConcurrentSetup(NewFacade(pool.alg, TempKey(pool.alg), random),
                                                    pool.gor[g].key, random),
                                 !.gor[g].pc = "held", !.gor[g].obj = i]
  /\ UNCHANGED <<fac, last, bp, pk, ini, asym>>

\* the modes a borrower selects
PoolModes == {"CBC", "CTR"}

Configure(g) ==
  /\ pool.gor[g].pc = "held"
  /\ LET i == pool.gor[g].obj
     IN \E m \in PoolModes : \E random \in ModeDraws(pool.inst[i], m) :
          pool' = [pool EXCEPT !.inst[i] = SelectMode(@, m, random), !.gor[g].pc = "ready"]
  /\ UNCHANGED <<fac, last, bp, pk, ini, asym>>

LendEncrypt(g) ==
  /\ pool.gor[g].pc = "ready"
  /\ LET i == pool.gor[g].obj
         p == PlainOf(g, pool.alg)
     IN \E randomIV \in IVDraws(pool.inst[i]), randomNonce \in NonceDraws(pool.inst[i]) :
          LET r == EncryptOf(pool.inst[i], p, randomIV, randomNonce)
          IN pool' = [pool EXCEPT !.inst[i].iv = r.iv,
                                  !.gor[g] = [@ EXCEPT !.pc = "sent", !.p = p, !.ct = r.out,
                                                       !.st = r.st]]
  /\ UNCHANGED <<fac, last, bp, pk, ini, asym>>

LendDecrypt(g) ==
  /\ pool.gor[g].pc = "sent" /\ pool.gor[g].st = "ok"
  /\ LET r == DecryptOf(pool.inst[pool.gor[g].obj], pool.gor[g].ct)
     IN pool' = [pool EXCEPT !.gor[g] = [@ EXCEPT !.pc = "used", !.out = r.out, !.st = r.st]]
  /\ UNCHANGED <<fac, last, bp, pk, ini, asym>>

\* Release up to the size check of Put: Reset, then Put runs resetFunc, which is Reset
PutReset(g) ==
  /\ pool.gor[g].conc
  /\ pool.gor[g].pc = "used" \/ (pool.gor[g].pc = "sent" /\ pool.gor[g].st # "ok")
  /\ pool' = [pool EXCEPT !.inst[pool.gor[g].obj] = ResetFacade(ResetFacade(@)),
                          !.gor[g].pc = "put"]
  /\ UNCHANGED <<fac, last, bp, pk, ini, asym>>

\* Put after resetFunc: over the size limit the instance is dropped and the counter
\* goes down; otherwise the instance goes back into the sync.Pool
PutBack(g) ==
  /\ pool.gor[g].pc = "put"
  /\ LET i == pool.gor[g].obj
         elsewhere == i \in pool.free \/ \E h \in Goroutines \ {g} : pool.gor[h].obj = i
     IN IF PoolMaxSize > 0 /\ pool.active > PoolMaxSize
        THEN pool' = [pool EXCEPT !.active = PutActive(@),
                                  !.inst[i] = IF elsewhere THEN @ ELSE NoFacade,
                                  !.gor[g].pc = "done", !.gor[g].obj = 0]
        ELSE pool' = [pool EXCEPT !.free = @ \cup {i},
                                  !.gor[g].pc = "dec", !.gor[g].obj = 0]
  /\ UNCHANGED <<fac, last, bp, pk, ini, asym>>

\* Put, last step: the active counter goes down
PutDec(g) ==
  /\ pool.gor[g].pc = "dec"
  /\ pool' = [pool EXCEPT !.active = PutActive(@), !.gor[g].pc = "done"]
  /\ UNCHANGED <<fac, last, bp, pk, ini, asym>>

NextPool ==
  \/ \E g \in Goroutines : NewX(g)
  \/ \E g \in Goroutines : MustNewX(g)
  \/ \E g \in Goroutines : NewConcurrentX(g)
  \/ \E g \in Goroutines : MustNewConcurrentX(g)
  \/ \E g \in Goroutines : GetCount(g)
  \/ \E g \in Goroutines : GetTake(g)
  \/ \E g \in Goroutines : Configure(g)
  \/ \E g \in Goroutines : LendEncrypt(g)
  \/ \E g \in Goroutines : LendDecrypt(g)
  \/ \E g \in Goroutines : PutReset(g)
  \/ \E g \in Goroutines : PutBack(g)
  \/ \E g \in Goroutines : PutDec(g)

SpecPool == InitPool /\ [][NextPool]_vars

(***************************************************************************)
(* Goroutines that construct facades with NewX and NewConcurrentX before   *)
(* and after InitConcurrentPools, configure them and release them.         *)
(***************************************************************************)
InitRel ==
  /\ fac = [f \in Facades |-> NoFacade]
  /\ last = Idle
  /\ pool \in {[PoolIdle EXCEPT !.alg = a, !.init = FALSE] : a \in Algorithms}
  /\ bp = BufIdle
  /\ pk = PadIdle
  /\ ini = IniIdle
  /\ asym = AsymIdle

\* a call of InitConcurrentPools on its own
InitConcurrentPools ==
  /\ ~pool.init
  /\ pool' = [pool EXCEPT !.init = TRUE]
  /\ UNCHANGED <<fac, last, bp, pk, ini, asym>>

NewPlain(g) == CallNew(g, FALSE, FALSE)

\* what a holder sets before it releases the facade
Profiles ==
  {[mode |-> "CBC", padding |-> "PKCS7", encoding |-> "Base64", iv |-> FALSE],
   [mode |-> "CTR", padding |-> "None", encoding |-> "Hex", iv |-> TRUE]}

Configured(x, pr, random) ==
  LET a == SelectMode(x, pr.mode, random)
      b == [a EXCEPT !.padding = pr.padding, !.encoding = pr.encoding]
  IN IF ~pr.iv THEN b
     ELSE IF x.alg = "SM4" THEN SM4WithIV(b, SuppliedIV(x.alg))
     ELSE WithIV(b, SuppliedIV(x.alg))

\* a mode call, a padding call, an encoding call and WithIV
ConfigureAll(g) ==
  /\ pool.gor[g].pc = "held"
  /\ LET i == pool.gor[g].obj
     IN \E pr \in Profiles : \E random \in ModeDraws(pool.inst[i], pr.mode) :
          pool' = [pool EXCEPT !.inst[i] = Configured(@, pr, random),
                               !.gor[g].pc = "used", !.gor[g].cfg = pr.mode]
  /\ UNCHANGED <<fac, last, bp, pk, ini, asym>>

\* Release of a facade that came from NewX: Reset, then Put into the concurrent pool
\* when the concurrent pools are initialised (Put runs resetFunc, which is Reset),
\* and into EncryptorPools otherwise
ReleasePlain(g) ==
  /\ ~pool.gor[g].conc
  /\ pool.gor[g].pc \in {"held", "used"}
  /\ LET i == pool.gor[g].obj
     IN IF pool.init
        THEN pool' = [pool EXCEPT !.inst[i] = ResetFacade(ResetFacade(@)),
                                  !.gor[g].pc = "put"]
        ELSE pool' = [pool EXCEPT !.inst[i] = ResetFacade(@), !.std = @ \cup {i},
                                  !.gor[g].pc = "done", !.gor[g].obj = 0]
  /\ UNCHANGED <<fac, last, bp, pk, ini, asym>>

NextRel ==
  \/ InitConcurrentPools
  \/ \E g \in Goroutines : NewPlain(g)
  \/ \E g \in Goroutines : NewConcurrentX(g)
  \/ \E g \in Goroutines : GetCount(g)
  \/ \E g \in Goroutines : GetTake(g)
  \/ \E g \in Goroutines : ConfigureAll(g)
  \/ \E g \in Goroutines : ReleasePlain(g)
  \/ \E g \in Goroutines : PutReset(g)
  \/ \E g \in Goroutines : PutBack(g)
  \/ \E g \in Goroutines : PutDec(g)

SpecRel == InitRel /\ [][NextRel]_vars

(***************************************************************************)
(* Goroutines that borrow buffers from a ConcurrentBufferPool.             *)
(***************************************************************************)
\* GetBuffer, first half: the active counter goes up
BufGetCount(g) ==
  /\ bp.gor[g].pc = "idle"
  /\ \E size \in BufSizes :
       bp' = [bp EXCEPT !.active = @ + 1,
                        !.gor[g] = [NoBuf EXCEPT !.pc = "take", !.size = size]]
  /\ UNCHANGED <<fac, last, pool, pk, ini, asym>>

\* GetBuffer, second half: a pooled buffer (c > 0) or a new one of minSize (c = 0);
\* one that is too small goes straight back and a buffer of the size is made
BufGetTake(g) ==
  /\ bp.gor[g].pc = "take"
  /\ \E c \in {0} \cup {d \in BufCaps : bp.free[d] > 0} :
       LET cap == IF c = 0 THEN BufMinSize ELSE c
           free1 == IF c = 0 THEN bp.free ELSE [bp.free EXCEPT ![c] = @ - 1]
           size == bp.gor[g].size
       IN IF cap < size
          THEN bp' = [bp EXCEPT !.created = @ + 1, !.free = [free1 EXCEPT ![cap] = @ + 1],
                                !.gor[g] = [@ EXCEPT !.pc = "held", !.cap = size, !.len = size]]
          ELSE bp' = [bp EXCEPT !.reused = @ + 1, !.free = free1,
                                !.gor[g] = [@ EXCEPT !.pc = "held", !.cap = cap, !.len = size]]
  /\ UNCHANGED <<fac, last, pool, pk, ini, asym>>

\* PutBuffer up to the return of the buffer to the sync.Pool
BufPut(g) ==
  /\ bp.gor[g].pc = "held"
  /\ LET cap == bp.gor[g].cap
     IN IF BufRefused(cap)
        THEN bp' = [bp EXCEPT !.gor[g].pc = "done"]
        ELSE IF bp.active > BufCacheSize
        THEN bp' = [bp EXCEPT !.active = @ - 1, !.gor[g].pc = "done"]
        ELSE bp' = [bp EXCEPT !.free[cap] = @ + 1, !.gor[g].pc = "dec"]
  /\ UNCHANGED <<fac, last, pool, pk, ini, asym>>

\* PutBuffer, last step: the active counter goes down
BufPutDec(g) ==
  /\ bp.gor[g].pc = "dec"
  /\ bp' = [bp EXCEPT !.active = @ - 1, !.gor[g].pc = "done"]
  /\ UNCHANGED <<fac, last, pool, pk, ini, asym>>

NextBuf ==
  \/ \E g \in Goroutines : BufGetCount(g)
  \/ \E g \in Goroutines : BufGetTake(g)
  \/ \E g \in Goroutines : BufPut(g)
  \/ \E g \in Goroutines : BufPutDec(g)

SpecBuf == Init /\ [][NextBuf]_vars

(***************************************************************************)
(* PKCS7 Pad and Unpad applied to one block size and one byte string.      *)
(***************************************************************************)
InitPad ==
  /\ fac = [f \in Facades |-> NoFacade]
  /\ last = Idle
  /\ pool = PoolIdle
  /\ bp = BufIdle
  /\ pk \in {[PadIdle EXCEPT !.phase = "in", !.bs = b, !.data = d] :
               b \in PadBlockSizes, d \in PadInputs}
  /\ ini = IniIdle
  /\ asym = AsymIdle

PKCS7PadCall ==
  /\ pk.phase = "in"
  /\ pk' = [pk EXCEPT !.phase = "padded", !.padded = PKCS7Pad(pk.data, pk.bs)]
  /\ UNCHANGED <<fac, last, pool, bp, ini, asym>>

\* Unpad of what Pad returned
PKCS7UnpadCall ==
  /\ pk.phase = "padded" /\ pk.padded.ok
  /\ pk' = [pk EXCEPT !.phase = "round", !.res = PKCS7Unpad(pk.padded.val, pk.bs)]
  /\ UNCHANGED <<fac, last, pool, bp, ini, asym>>

\* Unpad of the byte string as it is
PKCS7UnpadRaw ==
  /\ pk.phase = "in"
  /\ pk' = [pk EXCEPT !.phase = "raw", !.res = PKCS7Unpad(pk.data, pk.bs)]
  /\ UNCHANGED <<fac, last, pool, bp, ini, asym>>

NextPad ==
  \/ PKCS7PadCall
  \/ PKCS7UnpadCall
  \/ PKCS7UnpadRaw

SpecPad == InitPad /\ [][NextPad]_vars

(***************************************************************************)
(* Zero padding: Pad and Unpad applied to one block size and one byte      *)
(* string.                                                                 *)
(***************************************************************************)
ZeroPadCall ==
  /\ pk.phase = "in"
  /\ pk' = [pk EXCEPT !.phase = "padded", !.padded = ZeroPad(pk.data, pk.bs)]
  /\ UNCHANGED <<fac, last, pool, bp, ini, asym>>

\* Unpad of what Pad returned
ZeroUnpadCall ==
  /\ pk.phase = "padded" /\ pk.padded.ok
  /\ pk' = [pk EXCEPT !.phase = "round", !.res = ZeroUnpad(pk.padded.val, pk.bs)]
  /\ UNCHANGED <<fac, last, pool, bp, ini, asym>>

\* Unpad of the byte string as it is
ZeroUnpadRaw ==
  /\ pk.phase = "in"
  /\ pk' = [pk EXCEPT !.phase = "raw", !.res = ZeroUnpad(pk.data, pk.bs)]
  /\ UNCHANGED <<fac, last, pool, bp, ini, asym>>

NextZero ==
  \/ ZeroPadCall
  \/ ZeroUnpadCall
  \/ ZeroUnpadRaw

SpecZero == InitPad /\ [][NextZero]_vars

(***************************************************************************)
(* Goroutines that call InitConcurrentPools at the same time.  The first   *)
(* read of initialized is outside the mutex, so it and the reads of the    *)
(* pool fields that follow it are not ordered with the stores made inside  *)
(* the locked section: each of those stores reaches the other goroutines   *)
(* at any time up to the unlock, in any order.                             *)
(***************************************************************************)
\* if !ConcurrentPools.initialized, outside the mutex
FirstCheck(g) ==
  /\ ini.gor[g].pc = "idle"
  /\ ini' = [ini EXCEPT !.gor[g] = IF InitFlag \in ini.mem
                                    THEN [@ EXCEPT !.pc = "in", !.fast = TRUE]
                                    ELSE [@ EXCEPT !.pc = "lock"]]
  /\ UNCHANGED <<fac, last, pool, bp, pk, asym>>

\* ConcurrentPools.mutex.Lock()
Lock(g) ==
  /\ ini.gor[g].pc = "lock"
  /\ ini.lock = "-"
  /\ ini' = [ini EXCEPT !.lock = g, !.gor[g].pc = "check"]
  /\ UNCHANGED <<fac, last, pool, bp, pk, asym>>

\* if !ConcurrentPools.initialized, inside the mutex
SecondCheck(g) ==
  /\ ini.gor[g].pc = "check"
  /\ ini' = [ini EXCEPT !.gor[g].pc = IF InitFlag \in ini.mem THEN "unlock" ELSE "build"]
  /\ UNCHANGED <<fac, last, pool, bp, pk, asym>>

\* the seven pools are constructed and assigned, then initialized = true
BuildPools(g) ==
  /\ ini.gor[g].pc = "build"
  /\ ini' = [ini EXCEPT !.built = [p \in PoolNames |-> @[p] + 1],
                        !.pending = PoolNames \cup {InitFlag},
                        !.gor[g].pc = "unlock"]
  /\ UNCHANGED <<fac, last, pool, bp, pk, asym>>

\* one of the stores made inside the locked section reaches the other goroutines
StoreReaches ==
  /\ \E st \in ini.pending :
       ini' = [ini EXCEPT !.mem = @ \cup {st}, !.pending = @ \ {st}]
  /\ UNCHANGED <<fac, last, pool, bp, pk, asym>>

\* the deferred Unlock: every store made before it has reached memory
Unlock(g) ==
  /\ ini.gor[g].pc = "unlock"
  /\ ini' = [ini EXCEPT !.mem = @ \cup ini.pending, !.pending = {}, !.lock = "-",
                        !.gor[g].pc = "in"]
  /\ UNCHANGED <<fac, last, pool, bp, pk, asym>>

\* the caller, back from InitConcurrentPools, reads the pool fields
ReadPools(g) ==
  /\ ini.gor[g].pc = "in"
  /\ ini' = [ini EXCEPT !.gor[g] = [@ EXCEPT !.pc = "used", !.saw = ini.mem \cap PoolNames]]
  /\ UNCHANGED <<fac, last, pool, bp, pk, asym>>

NextInit ==
  \/ \E g \in Goroutines : FirstCheck(g)
  \/ \E g \in Goroutines : Lock(g)
  \/ \E g \in Goroutines : SecondCheck(g)
  \/ \E g \in Goroutines : BuildPools(g)
  \/ StoreReaches
  \/ \E g \in Goroutines : Unlock(g)
  \/ \E g \in Goroutines : ReadPools(g)

SpecInit == Init /\ [][NextInit]_vars

(***************************************************************************)
(* Holders that obtain an RSA or SM2 facade, call its operations, give it  *)
(* a key and release it.                                                   *)
(***************************************************************************)
InitAsym ==
  /\ fac = [f \in Facades |-> NoFacade]
  /\ last = Idle
  /\ pool = PoolIdle
  /\ bp = BufIdle
  /\ pk = PadIdle
  /\ ini = IniIdle
  /\ asym \in {[AsymIdle EXCEPT !.alg = a, !.init = b] : a \in AsymAlgorithms, b \in BOOLEAN}

AsymUnused == {i \in Instances : ~asym.inst[i].alive}
AsymNewId == CHOOSE i \in AsymUnused : \A j \in AsymUnused : i <= j

\* NewRSA / NewSM2 take from EncryptorPools and call Reset; NewConcurrentRSA /
\* NewConcurrentSM2 initialise the concurrent pools and take from ConcurrentPools,
\* whose newFunc is NewRSA / NewSM2.  A sync.Pool hands out a pooled instance or a
\* new one.
NewAsym(g, conc) ==
  /\ asym.gor[g].pc = "idle"
  /\ \/ \E i \in (IF conc THEN asym.conc \cup asym.std ELSE asym.std) :
          asym' = [asym EXCEPT !.init = @ \/ conc,
                               !.std = @ \ {i}, !.conc = @ \ {i},
                               !.inst[i] = IF i \in asym.std THEN AsymReset(@) ELSE @,
                               !.gor[g] = [@ EXCEPT !.pc = "held", !.obj = i, !.conc = conc]]
     \/ /\ AsymUnused # {}
        /\ asym' = [asym EXCEPT !.init = @ \/ conc,
                                !.inst[AsymNewId] = AsymReset([NoAsymFacade EXCEPT !.alive = TRUE]),
                                !.gor[g] = [@ EXCEPT !.pc = "held", !.obj = AsymNewId,
                                                     !.conc = conc]]
  /\ UNCHANGED <<fac, last, pool, bp, pk, ini>>

NewAsymmetric(g) == NewAsym(g, FALSE)
NewConcurrentAsymmetric(g) == NewAsym(g, TRUE)

\* Encrypt, Decrypt, Sign and Verify before the holder has supplied a key
CallWithoutKey(g) ==
  /\ asym.gor[g].pc = "held"
  /\ LET x == asym.inst[asym.gor[g].obj]
     IN asym' = [asym EXCEPT !.gor[g] = [@ EXCEPT !.pc = "probed",
                                                  !.enc = NeedsPublic(x),
                                                  !.verify = NeedsPublic(x),
                                                  !.dec = NeedsPrivate(x),
                                                  !.sign = NeedsPrivate(x)]]
  /\ UNCHANGED <<fac, last, pool, bp, pk, ini>>

GenerateKeyPair(g) ==
  /\ asym.gor[g].pc = "probed"
  /\ asym' = [asym EXCEPT !.inst[asym.gor[g].obj] = [@ EXCEPT !.pub = g, !.priv = g],
                          !.gor[g].pc = "keyed"]
  /\ UNCHANGED <<fac, last, pool, bp, pk, ini>>

WithPublicKey(g) ==
  /\ asym.gor[g].pc = "probed"
  /\ asym' = [asym EXCEPT !.inst[asym.gor[g].obj].pub = g, !.gor[g].pc = "keyed"]
  /\ UNCHANGED <<fac, last, pool, bp, pk, ini>>

\* Release: Reset, then Put into ConcurrentPools when they are initialised (Put runs
\* resetFunc, which is Reset) and into EncryptorPools otherwise
ReleaseAsym(g) ==
  /\ asym.gor[g].pc \in {"probed", "keyed"}
  /\ LET i == asym.gor[g].obj
     IN IF asym.init
        THEN asym' = [asym EXCEPT !.inst[i] = AsymReset(AsymReset(@)), !.conc = @ \cup {i},
                                  !.gor[g] = [@ EXCEPT !.pc = "done", !.obj = 0]]
        ELSE asym' = [asym EXCEPT !.inst[i] = AsymReset(@), !.std = @ \cup {i},
                                  !.gor[g] = [@ EXCEPT !.pc = "done", !.obj = 0]]
  /\ UNCHANGED <<fac, last, pool, bp, pk, ini>>

NextAsym ==
  \/ \E g \in Goroutines : NewAsymmetric(g)
  \/ \E g \in Goroutines : NewConcurrentAsymmetric(g)
  \/ \E g \in Goroutines : CallWithoutKey(g)
  \/ \E g \in Goroutines : GenerateKeyPair(g)
  \/ \E g \in Goroutines : WithPublicKey(g)
  \/ \E g \in Goroutines : ReleaseAsym(g)

SpecAsym == InitAsym /\ [][NextAsym]_vars

(***************************************************************************)
(* Properties.  Cur is the facade of the most recent call and Wire what   *)
(* its Encrypt returned before encoding.                                   *)
(***************************************************************************)
Cur == fac[last.f]
Wire == Decode(Cur.encoding, last.out).val
AfterEncrypt == last.op = "Encrypt" /\ last.st = "ok"
StreamModes == {"CFB", "OFB", "CTR", "GCM"}
Supports(alg, mode) == mode = "GCM" => alg \in {"AES", "SM4"}

\* C1: on a facade configured with a mode-selection call, PKCS7 and any encoding,
\* Encrypt succeeds for every supported mode and plaintext length, and Decrypt of
\* its output on that same facade returns exactly the plaintext.
RoundTrip ==
  /\ (last.op = "Encrypt" /\ Cur.sel /\ Cur.padding = "PKCS7" /\ Supports(Cur.alg, Cur.mode))
       => last.st = "ok"
  /\ (last.op = "Decrypt" /\ last.from = last.f /\ last.tamper = "none"
        /\ Cur.sel /\ Cur.padding = "PKCS7")
       => (last.st = "ok" /\ last.out = last.p)

RoundTripDone ==
  /\ last.op = "Decrypt" /\ last.st = "ok" /\ last.out = last.p
  /\ Cur.alg = "3DES" /\ Cur.mode = "CFB" /\ Cur.padding = "PKCS7" /\ Cur.encoding = "Hex"
  /\ Len(last.p) = MaxBlocks * DESBlockSize + 1

\* C2: with an auto-generated IV (no WithIV call) in CBC, CFB, OFB or CTR, Encrypt
\* returns the IV followed by the transform output, and a second facade built with
\* the same key, mode, padding and encoding decrypts it to the plaintext.
SelfContained ==
  /\ (AfterEncrypt /\ Cur.sel /\ Cur.sup = "no" /\ Cur.mode \in IVModes)
       => /\ Len(Wire) = BlockSizeOf(Cur.alg) + last.fed
          /\ Take(BlockSizeOf(Cur.alg), Wire) = last.used
  /\ (last.op = "Decrypt" /\ last.from # last.f /\ last.tamper = "none"
        /\ Cur.sel /\ fac[last.from].sel /\ Cur.sup = "no" /\ fac[last.from].sup = "no"
        /\ Cur.mode \in IVModes /\ Cur.mode = fac[last.from].mode
        /\ Cur.key = fac[last.from].key /\ Cur.padding = fac[last.from].padding
        /\ Cur.encoding = fac[last.from].encoding)
       => (last.st = "ok" /\ last.out = last.p)

\* C3: after a mode-selection call and then WithIV with an IV of the block size,
\* the decoded output of Encrypt in CBC, CFB, OFB or CTR is as long as the bytes
\* handed to the mode transform: no IV is put in front.
SuppliedNotEmbedded ==
  (AfterEncrypt /\ Cur.sel /\ Cur.sup = "after" /\ Cur.mode \in IVModes
     /\ Cur.iv = SuppliedIV(Cur.alg))
    => Len(Wire) = last.fed

\* C4: WithIV before the mode-selection call and WithIV after it give the same
\* wire format, without the IV in front, and Encrypt runs with the supplied IV
\* (stated for AES, DES and SM4; C3 covers 3DES).
OrderIndependent ==
  (AfterEncrypt /\ Cur.sel /\ Cur.sup \in {"after", "before"} /\ Cur.mode \in IVModes
     /\ Cur.alg \in {"AES", "DES", "SM4"} /\ Cur.iv = SuppliedIV(Cur.alg))
    => (Len(Wire) = last.fed /\ last.used = Cur.iv)

\* C5: two facades built separately with the same key and configured by the same
\* calls (mode, WithIV with the same IV, padding, encoding) return the same
\* ciphertext for the same plaintext, and each decrypts the other's output.
SameSupplied(f, g) ==
  /\ fac[f].alive /\ fac[g].alive
  /\ fac[f].key = fac[g].key
  /\ fac[f].sel /\ fac[g].sel
  /\ fac[f].mode \in IVModes /\ fac[f].mode = fac[g].mode
  /\ fac[f].sup # "no" /\ fac[f].sup = fac[g].sup
  /\ fac[f].iv = SuppliedIV(fac[f].alg) /\ fac[g].iv = fac[f].iv
  /\ fac[f].padding = fac[g].padding /\ fac[f].encoding = fac[g].encoding

DeterministicReuse ==
  (AfterEncrypt /\ last.prev # Nil /\ last.from = last.f /\ Cur.mode \in IVModes)
    => last.out = last.prev

ReusedGeneratedIV ==
  /\ AfterEncrypt /\ last.prev # Nil /\ last.from = last.f /\ last.out = last.prev
  /\ Cur.alg = "SM4" /\ Cur.mode = "CTR" /\ Cur.sup = "no" /\ last.ivPre # Nil

\* C7: once the IV a facade encrypts with is set, only a call that sets an IV
\* changes it: Encrypt, Decrypt, switching among CBC, CFB, OFB and CTR and the
\* padding and encoding setters leave it as it is.
\* the IV the next Encrypt runs with; Nil when none is set or Encrypt rejects it
IVInUse(f) ==
  IF f.alg = "SM4" THEN f.iv
  ELSE IF f.iv # Nil /\ Len(f.iv) # BlockSizeOf(f.alg) THEN Nil
  ELSE f.miv

IVLifecycle ==
  [][\A f \in Facades :
       (/\ fac[f].alive
        /\ fac[f].mode \in IVModes /\ fac'[f].mode \in IVModes
        /\ GoLen(IVInUse(fac[f])) = BlockSizeOf(fac[f].alg)
        /\ last'.op \notin {"New", "WithIV", "Reset"})
         => IVInUse(fac'[f]) = IVInUse(fac[f])]_vars

\* C8: every Encrypt in GCM (AES, SM4) reads a nonce from the random source, whether
\* or not WithIV was called; the output is that nonce, the ciphertext and the tag;
\* the stored IV is the same after the call.
GCMNonceFresh ==
  (AfterEncrypt /\ Cur.mode = "GCM")
    => /\ last.rnd \in RandomBytes(GCMNonceSize)
       /\ Take(GCMNonceSize, Wire) = last.rnd
       /\ Len(Wire) = GCMNonceSize + last.fed + GCMTagSize
       /\ Cur.iv = last.ivPre

GCMWithSuppliedIV ==
  /\ AfterEncrypt /\ Cur.mode = "GCM" /\ Cur.alg = "AES"
  /\ Cur.sup = "before" /\ Cur.iv = SuppliedIV("AES")
  /\ Take(GCMNonceSize, Wire) = last.rnd

\* C9: Decrypt in GCM of a ciphertext with one decoded byte altered, in the nonce,
\* the body or the tag, returns an error.
GCMTamperDetected ==
  (last.op = "Decrypt" /\ last.tamper # "none" /\ Cur.mode = "GCM") => last.st = "err"

GCMTagTampered ==
  /\ last.op = "Decrypt" /\ last.tamper = "tag" /\ Cur.mode = "GCM" /\ Cur.alg = "SM4"
  /\ last.st = "err"

\* C10: in CFB, OFB, CTR and GCM, Encrypt pads nothing whatever the padding policy:
\* every plaintext is accepted and the transform is given exactly the plaintext;
\* Decrypt removes no padding from what the transform returns.
StreamModesNeverPad ==
  /\ (last.op = "Encrypt" /\ Cur.sel /\ Cur.mode \in StreamModes /\ Supports(Cur.alg, Cur.mode))
       => (last.st = "ok" /\ last.fed = Len(last.p))
  /\ (last.op = "Decrypt" /\ last.st = "ok" /\ Cur.mode \in StreamModes)
       => Len(last.out) = last.fed

\* C11: a constructor (NewX, NewConcurrentX and their Must forms) goes through
\* exactly when the key is 16, 24 or 32 bytes long for AES, 8 for DES, 24 for 3DES
\* and 16 for SM4; a refused call builds no facade and leaves the pool's counters,
\* its pooled instances and every instance as they were.
KeyLengthValidation ==
  [][\A g \in Goroutines :
       (pool.gor[g].pc = "idle" /\ pool'.gor[g].pc # "idle")
         => LET n == Len(pool'.gor[g].key)
                valid == CASE pool.alg = "AES" -> n \in {16, 24, 32}
                           [] pool.alg = "DES" -> n = 8
                           [] pool.alg = "3DES" -> n = 24
                           [] pool.alg = "SM4" -> n = 16
            IN /\ (pool'.gor[g].pc # "failed") <=> valid
               /\ pool'.gor[g].pc = "failed"
                    => /\ pool'.gor[g].st \in {"err", "panic"}
                       /\ pool'.gor[g].obj = 0
                       /\ pool'.active = pool.active
                       /\ pool'.created = pool.created
                       /\ pool'.reused = pool.reused
                       /\ pool'.free = pool.free
                       /\ pool'.inst = pool.inst]_vars

RefusedWhileLent ==
  /\ pool.alg = "AES"
  /\ pool.gor["g1"].pc = "failed" /\ pool.gor["g1"].conc /\ Len(pool.gor["g1"].key) = 15
  /\ pool.gor["g2"].pc = "held" /\ pool.active = 1

\* C12: MustNewX and MustNewConcurrentX panic exactly when NewX refuses the key and
\* hand out no facade then; otherwise the facade is in the state NewX leaves it in,
\* and after a mode-selection call it encrypts and decrypts back to the plaintext.
MustNewPanics ==
  \A g \in Goroutines :
    pool.gor[g].must =>
      /\ pool.gor[g].pc \in {"failed", "get", "take", "held"}
           => ((pool.gor[g].st = "panic") <=> (NewResult(pool.alg, pool.gor[g].key) = "err"))
      /\ pool.gor[g].pc = "failed" => pool.gor[g].obj = 0
      /\ pool.gor[g].pc = "held"
           => \E random \in RandomBytes(BlockSizeOf(pool.alg)) :
                pool.inst[pool.gor[g].obj] = NewFacade(pool.alg, pool.gor[g].key, random)
      /\ pool.gor[g].pc = "sent" => pool.gor[g].st = "ok"
      /\ pool.gor[g].pc = "used" => (pool.gor[g].st = "ok" /\ pool.gor[g].out = pool.gor[g].p)

MustNewPanicked ==
  /\ pool.alg = "DES"
  /\ pool.gor["g1"].must /\ pool.gor["g1"].conc /\ pool.gor["g1"].st = "panic"
  /\ Len(pool.gor["g1"].key) = 16

\* C13: for a block size in 1..256, PKCS7 Pad appends n bytes of value n, with
\* n = blockSize - (len mod blockSize), and Unpad of the result returns the byte
\* string; for a block size outside 1..256 both Pad and Unpad return an error.
PKCS7RoundTrip ==
  LET valid == pk.bs > 0 /\ pk.bs <= 256
      n == pk.bs - (Len(pk.data) % pk.bs)
  IN /\ pk.phase = "padded"
          => IF valid
             THEN pk.padded.ok /\ pk.padded.val = pk.data \o [i \in 1..n |-> n]
             ELSE ~pk.padded.ok
     /\ pk.phase = "round" => (pk.res.ok /\ pk.res.val = pk.data)
     /\ (pk.phase = "raw" /\ ~valid) => ~pk.res.ok

\* C14: for a block size in 1..256, PKCS7 Unpad of d returns an error exactly when d
\* is empty, or its length is no multiple of the block size, or its last byte n is 0
\* or above the block size, or one of its last n bytes is not n; otherwise it
\* returns d without its last n bytes.
PKCS7UnpadRejects ==
  (pk.phase = "raw" /\ pk.bs > 0 /\ pk.bs <= 256)
    => LET d == pk.data
           len == Len(d)
           n == d[len]
           malformed == \/ len = 0
                        \/ len % pk.bs # 0
                        \/ n = 0
                        \/ n > pk.bs
                        \/ \E i \in (len - n + 1)..len : d[i] # n
       IN IF malformed THEN ~pk.res.ok
          ELSE pk.res.ok /\ pk.res.val = SubSeq(d, 1, len - n)

PKCS7Unpadded ==
  /\ pk.phase = "raw" /\ pk.bs = 2 /\ pk.data = <<1, 3, 2, 2>>
  /\ pk.res.ok /\ pk.res.val = <<1, 3>>

\* C15: the key of a facade stays what the constructor was given: no call on the
\* facade, and no write by the caller into the slice it passed to the constructor
\* or into the slice GetKey returned, changes it.
KeyOwned ==
  [][\A f \in Facades :
       (fac[f].alive /\ fac'[f].alive) => fac'[f].key = fac[f].key]_vars

\* C16: Reset, from any configuration, wipes the bytes of the stored IV and unsets
\* it, puts the mode back to CBC with the IV in front of the ciphertext, the padding
\* to PKCS7 and the encoding to Base64, and keeps the key; a second Reset right
\* after the first changes nothing.
ResetRestoresDefaults ==
  [][last'.op = "Reset"
       => LET old == fac[last'.f]
              new == fac'[last'.f]
          IN /\ new.iv = Nil /\ new.miv = Nil
             /\ new.mode = "CBC" /\ new.keep = FALSE
             /\ new.padding = "PKCS7" /\ new.encoding = "Base64"
             /\ new.key = old.key /\ new.alg = old.alg /\ new.alive
             /\ old.iv # Nil => last'.out = [i \in 1..Len(old.iv) |-> 0]
             /\ (last.op = "Reset" /\ last.f = last'.f) => new = old]_vars

ResetAfterSuppliedIV ==
  /\ last.op = "Reset" /\ Cur.alg = "3DES"
  /\ last.ivPre = SuppliedIV("3DES") /\ last.out = [i \in 1..DESBlockSize |-> 0]
  /\ Cur.iv = Nil /\ Cur.mode = "CBC" /\ Cur.padding = "PKCS7" /\ Cur.encoding = "Base64"

\* C17: on a DES or 3DES facade with GCM selected, every Encrypt and every Decrypt
\* returns an error and no output, without a panic; on an AES or SM4 facade with GCM
\* selected, Encrypt succeeds.
GCMSupport ==
  /\ (last.op \in {"Encrypt", "Decrypt"} /\ Cur.alg \in {"DES", "3DES"} /\ Cur.mode = "GCM")
       => (last.st = "err" /\ last.out = <<>>)
  /\ (last.op = "Encrypt" /\ Cur.alg \in {"AES", "SM4"} /\ Cur.mode = "GCM")
       => last.st = "ok"

\* C18: the active counter of the pool is never negative and counts the goroutines
\* between the counting step of their Get and the counting step of their Put; while
\* no Get or Put is under way it is the number of goroutines holding an instance,
\* and it is 0 once every instance is back; every instance in the pool has been
\* through the reset function.
Borrowers(pcs) == {g \in Goroutines : pool.gor[g].conc /\ pool.gor[g].pc \in pcs}

PoolAccounting ==
  /\ pool.active >= 0
  /\ pool.active = Cardinality(Borrowers({"take", "held", "ready", "sent", "used", "put", "dec"}))
  /\ Borrowers({"get", "take", "put", "dec"}) = {}
       => pool.active = Cardinality(Borrowers({"held", "ready", "sent", "used"}))
  /\ Borrowers({"get", "take", "held", "ready", "sent", "used", "put", "dec"}) = {}
       => pool.active = 0
  /\ \A i \in pool.free :
       pool.inst[i].iv = Nil /\ pool.inst[i] = ResetFacade(pool.inst[i])

AllReturned ==
  /\ pool.gor["g1"].pc = "done" /\ pool.gor["g1"].conc
  /\ pool.gor["g2"].pc = "done"
  /\ pool.active = 0 /\ pool.created = 1 /\ pool.free # {}

\* C19: GetBuffer(size) returns a buffer of length size, and once every goroutine
\* has passed its buffer to PutBuffer the active counter of the buffer pool is 0.
BufferAccounting ==
  /\ \A g \in Goroutines : bp.gor[g].pc = "held" => bp.gor[g].len = bp.gor[g].size
  /\ (\A g \in Goroutines : bp.gor[g].pc \in {"idle", "done"}) => bp.active = 0

\* C20: no facade instance is with two goroutines at once or with a goroutine and
\* in the pool; each goroutine that borrowed a facade with NewConcurrentX gets a
\* ciphertext from Encrypt and its own plaintext back from Decrypt.
ExclusiveLending ==
  /\ \A g \in Goroutines, h \in Goroutines :
       (g # h /\ pool.gor[g].obj # 0) => pool.gor[g].obj # pool.gor[h].obj
  /\ \A g \in Goroutines : pool.gor[g].obj # 0 => pool.gor[g].obj \notin pool.free
  /\ \A g \in Goroutines :
       pool.gor[g].conc
         => /\ pool.gor[g].pc = "sent" => pool.gor[g].st = "ok"
            /\ pool.gor[g].pc = "used"
                 => (pool.gor[g].st = "ok" /\ pool.gor[g].out = pool.gor[g].p)

BothBorrowed ==
  /\ pool.alg = "SM4"
  /\ \A g \in Goroutines :
       /\ pool.gor[g].conc /\ pool.gor[g].pc = "used"
       /\ pool.gor[g].st = "ok" /\ pool.gor[g].out = pool.gor[g].p
  /\ pool.gor["g1"].obj # pool.gor["g2"].obj
  /\ pool.gor["g1"].p # pool.gor["g2"].p

\* C26: InitConcurrentPools called by several goroutines at once constructs each of
\* the seven pools exactly once, and every caller that is back from it, also one
\* that only read initialized == true, reads all seven pool fields non-nil.
InitOnce ==
  /\ \A p \in PoolNames : ini.built[p] <= 1
  /\ \A g \in Goroutines :
       ini.gor[g].pc = "used" => /\ ini.gor[g].saw = PoolNames
                                 /\ \A p \in PoolNames : ini.built[p] = 1

\* C28: a facade from NewRSA, NewSM2, NewConcurrentRSA or NewConcurrentSM2 holds no
\* key: until the holder supplies one, Encrypt and Verify fail for want of a public
\* key and Decrypt and Sign for want of a private key, also on an instance another
\* holder used with a key and released.
NoKeyCrossing ==
  \A g \in Goroutines :
    asym.gor[g].pc \in {"probed", "keyed", "done"} =>
      /\ asym.gor[g].enc = "no public key"
      /\ asym.gor[g].verify = "no public key"
      /\ asym.gor[g].dec = "no private key"
      /\ asym.gor[g].sign = "no private key"

\* C21: a facade as the constructor or Reset left it, with no mode selected and no
\* IV supplied, encrypts with the defaults, and Decrypt of the output on the same
\* facade returns the plaintext.
DefaultUsable ==
  /\ (last.op = "Encrypt" /\ ~Cur.sel /\ Cur.sup = "no") => last.st = "ok"
  /\ (last.op = "Decrypt" /\ last.tamper = "none" /\ ~Cur.sel /\ Cur.sup = "no")
       => (last.st = "ok" /\ last.out = last.p)

\* C22: in GCM on an AES or SM4 facade, Decrypt of an input of any length returns a
\* plaintext or an error and never panics, and an input whose decoded length is
\* below nonce size plus tag size gives an error.
GCMDecryptTotal ==
  (last.op = "Decrypt" /\ Cur.mode = "GCM" /\ Cur.alg \in {"AES", "SM4"})
    => /\ last.st # "panic"
       /\ LET decoded == Decode(Cur.encoding, last.in)
          IN (decoded.ok /\ Len(decoded.val) < GCMNonceSize + GCMTagSize) => last.st = "err"

\* C23: in ECB or CBC, for every algorithm, Decrypt of an input whose decoded length
\* is not a multiple of the block size returns an error and does not panic.
BlockDecryptTotal ==
  (last.op = "Decrypt" /\ Cur.mode \in {"ECB", "CBC"})
    => LET decoded == Decode(Cur.encoding, last.in)
       IN (decoded.ok /\ Len(decoded.val) % BlockSizeOf(Cur.alg) # 0) => last.st = "err"

\* C24: on an AES, DES or 3DES facade in CBC, CFB, OFB or CTR whose stored IV, given
\* by WithIV, is not of the block size, every Encrypt and every Decrypt returns an
\* error and no output, without a panic.
IVLengthEnforced ==
  (/\ last.op \in {"Encrypt", "Decrypt"}
   /\ Cur.alg # "SM4" /\ Cur.mode \in IVModes
   /\ Cur.iv # Nil /\ Len(Cur.iv) # BlockSizeOf(Cur.alg))
    => (last.st = "err" /\ last.out = <<>>)

\* C30: the slice the caller gave WithIV holds the same bytes after a later Reset of
\* the facade, and a later write by the caller into that slice changes neither the
\* stored IV nor the IV of the mode object.
CallerIVUntouched ==
  [][/\ (last'.op = "Reset" /\ fac[last'.f].sup # "no")
          => CallerIVAfterReset(fac[last'.f]) = fac[last'.f].iv
     /\ last'.op = "IVArg"
          => (fac'[last'.f].iv = fac[last'.f].iv /\ fac'[last'.f].miv = fac[last'.f].miv)]_vars

\* the byte string without its trailing zero bytes
RECURSIVE StripZeros(_)
StripZeros(data) ==
  IF data = <<>> \/ data[Len(data)] # 0 THEN data
  ELSE StripZeros(SubSeq(data, 1, Len(data) - 1))

\* C25: for a block size bs > 0, zero padding appends n zero bytes, 0 < n <= bs, up
\* to a multiple of bs; Unpad removes every trailing zero byte; so Unpad of Pad of p
\* is p without its own trailing zero bytes, which is p exactly when p is empty or
\* ends in a non-zero byte.
ZeroPaddingLossy ==
  /\ (pk.phase \in {"padded", "round"} /\ pk.bs > 0)
       => /\ pk.padded.ok
          /\ LET n == Len(pk.padded.val) - Len(pk.data)
             IN /\ 0 < n /\ n <= pk.bs
                /\ Len(pk.padded.val) % pk.bs = 0
                /\ pk.padded.val = pk.data \o [i \in 1..n |-> 0]
  /\ (pk.phase = "round" /\ pk.bs > 0)
       => /\ pk.res.ok
          /\ pk.res.val = StripZeros(pk.data)
          /\ (pk.res.val = pk.data) <=> (pk.data = <<>> \/ pk.data[Len(pk.data)] # 0)
  /\ (pk.phase = "raw" /\ pk.res.ok) => pk.res.val = StripZeros(pk.data)

ZeroPaddingLost ==
  /\ pk.phase = "round" /\ pk.bs = 3
  /\ pk.data = <<1, 0>> /\ pk.padded.val = <<1, 0, 0>>
  /\ pk.res.ok /\ pk.res.val = <<1>>

\* C27: in any order of InitConcurrentPools, NewX, NewConcurrentX and Release with
\* each instance released once, the concurrent pool's active counter is never
\* negative and, when no Get or Put is under way, is the number of facades from
\* NewConcurrentX that are not released yet.
ReleaseSafe ==
  /\ pool.active >= 0
  /\ (\A g \in Goroutines : pool.gor[g].pc \notin {"get", "take", "put", "dec"})
       => pool.active = Cardinality(Borrowers({"held", "used"}))

\* C29: a facade as NewX or NewConcurrentX hands it out has the caller's key, an IV
\* of the block size read from the random source, mode CBC with the IV put in front
\* of the ciphertext, PKCS7 padding and Base64 encoding, whatever an earlier holder
\* of the instance set before Release.
FreshConfiguration ==
  \A g \in Goroutines :
    pool.gor[g].pc = "held"
      => LET x == pool.inst[pool.gor[g].obj]
         IN /\ x.alive /\ x.alg = pool.alg
            /\ x.key = pool.gor[g].key
            /\ x.iv \in RandomBytes(BlockSizeOf(pool.alg))
            /\ x.mode = "CBC" /\ x.miv = Nil /\ x.keep = FALSE
            /\ x.padding = "PKCS7" /\ x.encoding = "Base64"

ReusedAfterConfigured ==
  /\ pool.gor["g1"].pc = "done" /\ pool.gor["g1"].conc /\ pool.gor["g1"].cfg = "CTR"
  /\ pool.gor["g2"].pc = "held" /\ pool.gor["g2"].conc
  /\ pool.created = 1 /\ pool.free = {}
  /\ pool.inst[pool.gor["g2"].obj].encoding = "Base64"

=============================================================================
